---- MODULE Spec2Model ----
(***************************************************************************)
(* Model of the pod dispatch / volume materialization code of kip          *)
(* (src/pkg/server/deploy_util.go) and of the pod/node binding records.    *)
(*                                                                         *)
(* Conventions                                                             *)
(*  - a Go pointer field (a pointer to int32 or bool) is an option record:  *)
(*    None or Some(x);                                                     *)
(*  - a Go map is a TLA+ function whose DOMAIN is the set of keys;         *)
(*  - a path string is the sequence of its "/"-separated components, the   *)
(*    empty string being << >>: "x/y" is <<"x","y">>, "/etc" is            *)
(*    <<"","etc">>;                                                        *)
(*  - a []byte is a sequence of numbers, a Go string value a TLA+ string,  *)
(*    StringBytes is the []byte(string) conversion.                        *)
(***************************************************************************)
EXTENDS Integers, Sequences, FiniteSets, TLC

VARIABLES
    \* ---- getConfigMapFiles / getSecretFiles (SpecFiles)
    cmVol,      \* the volume source: Items, DefaultMode, Optional
    cm,         \* the v1.ConfigMap: Data, BinaryData
    sec,        \* the v1.Secret: Data
    cmRes,      \* result of getConfigMapFiles, or NotCalled
    secRes,     \* result of getSecretFiles, or NotCalled
    \* ---- makeDeployPackage (SpecPackage)
    contents,   \* the map path -> packageFile handed to makeDeployPackage
    archive,    \* the tar entries written, in order, or NotCalled
    \* ---- deployPodVolumes (SpecDeploy)
    pod,        \* the api.Pod: Name, Namespace, Volumes
    rm,         \* the resource manager: the configmaps and secrets it holds
    agent,      \* the cell agent: the files it holds per <<pod, volume>>
    status,     \* "idle", "running", or how the last call returned: "ok" / "err"
    idx,        \* index into pod.Spec.Volumes of the loop of the running call
    calls,      \* the Deploy calls the current (or last) call has made, in order
    fetchLog,   \* what the fetch of each volume visited by the call returned
    err,        \* the volume and the step the call failed at, or NoErr
    prevStatus, \* how the call before the current one returned, "none" at first
    \* ---- pod / node binding (SpecBind)
    pods,       \* the pod records of the registry: Phase, BoundNodeName, Version
    nodes,      \* the node records of the registry: Phase, BoundPodName, Version
    claimers,   \* the claim attempts in flight: what each has read and how it ended
    absent,     \* per node, the consecutive ticks that did not list its instance
    \* ---- the dispatcher's handling of a failed deployPodVolumes (SpecDeploy)
    podStatus,  \* the api.PodStatus of the pod: Phase, Reason, StartFailures
    \* ---- FilterImages / SortImages / GetBestImage (SpecImages)
    images,     \* the candidate []Image: Id, Name
    tags,       \* the BootImageTags requested
    filtered,   \* result of FilterImages, or NotCalled
    sorted,     \* the slice after SortImages, or NotCalled
    best,       \* result of GetBestImage: id and error, or NotCalled
    \* ---- BootImageTags.Set / String (SpecTags)
    bit,        \* the BootImageTags receiver
    setName,    \* the string handed to Set
    setRes,     \* the receiver after Set(setName), or NotCalled
    strRes,     \* what String() returned, or NotCalled
    rtRes,      \* a fresh BootImageTags after Set(bit.String()), or NotCalled
    \* ---- createResolvconf / deployResolvconf / deployNetworkAgentToken (SpecNet)
    dnsconf,    \* the runtimeapi.DNSConfig: Servers, Searches, Options
    dnsConfigurer, \* the *dns.Configurer: None for nil, or the DNSConfig GetPodDNS gives
    cfg,        \* the *clientcmdapi.Config: None for nil, or what it serializes to
    resolvRes,  \* result of createResolvconf, or NotCalled
    rcRes,      \* how deployResolvconf returned and the Deploy calls it made, or NotCalled
    tokRes,     \* the same of deployNetworkAgentToken
    \* ---- cloudinitfile.File (SpecCloudInit)
    cloudFile,  \* the File: userData, kipFiles
    lastCall,   \* the last method called on the File and its arguments
    contentsRes, \* what the last Contents() returned, or NotCalled
    \* ---- api.ObjectMeta (SpecMeta)
    meta,       \* the ObjectMeta: Name, Labels, CreationTimestamp, UID, Namespace
    creates     \* the number of Create calls made on it

filesVars == <<cmVol, cm, sec, cmRes, secRes>>
pkgVars == <<contents, archive>>
deployVars == <<pod, rm, agent, status, idx, calls, fetchLog, err, prevStatus, podStatus>>
bindVars == <<pods, nodes, claimers, absent>>
imageVars == <<images, tags, filtered, sorted, best>>
tagVars == <<bit, setName, setRes, strRes, rtRes>>
netVars == <<dnsconf, dnsConfigurer, cfg, resolvRes, rcRes, tokRes>>
cloudInitVars == <<cloudFile, lastCall, contentsRes>>
metaVars == <<meta, creates>>
vars == <<filesVars, pkgVars, deployVars, bindVars, imageVars, tagVars, netVars, cloudInitVars, metaVars>>

----------------------------------------------------------------------------
(* Option values and small helpers *)

None == [some |-> FALSE]
Some(x) == [some |-> TRUE, val |-> x]

NotCalled == [called |-> FALSE]

EmptyMap == [k \in {} |-> None]

\* a plausible slip: a key already in the map keeps its value
MapPutKeep(m, k, v) == [x \in (DOMAIN m) \cup {k} |-> IF x \in DOMAIN m THEN m[x] ELSE v]

\* m with key k set to v (Go: m[k] = v)
MapPut(m, k, v) == [x \in (DOMAIN m) \cup {k} |-> IF x = k THEN v ELSE m[x]]

\* every sequence enumerating the finite set S once: the possible orders of a
\* Go range over a map with key set S
Orders(S) == {s \in [1..Cardinality(S) -> S] : \A i, j \in 1..Cardinality(S) : s[i] = s[j] => i = j}

\* sequences over S of length at most n
SeqUpTo(S, n) == UNION {[1..k -> S] : k \in 0..n}

----------------------------------------------------------------------------
(* Bounds and input domains *)

\* longest Items list of a volume source
MaxItems == 2
\* most files in a map handed to makeDeployPackage
MaxFiles == 3

defaultVolumeFileMode == 420  \* 0644

Keys == {"a", "b"}
ItemKeys == Keys \cup {"zz"}
ItemPaths == {<< >>, <<"x", "y">>}
StringValues == {"A"}
ByteValues == {<<65>>, <<1, 2>>}

\* []byte(s) for the strings of the model
StringBytes(s) == CASE s = "A" -> <<65>> [] s = "B" -> <<66>> [] OTHER -> << >>

PartialMaps(K, V) == UNION {[D -> V] : D \in SUBSET K}

KeyToPath == [Key : ItemKeys, Path : ItemPaths, Mode : {None, Some(256)}]
VolumeSources == [Items : SeqUpTo(KeyToPath, MaxItems), DefaultMode : {None, Some(384)}, Optional : {None, Some(TRUE), Some(FALSE)}]
ConfigMaps == [Data : PartialMaps(Keys, StringValues), BinaryData : PartialMaps(Keys, {<<1, 2>>})]
Secrets == [Data : PartialMaps(Keys, ByteValues)]

\* the variables of the binding where it is not part of the specification
BindIdle ==
    /\ pods = EmptyMap
    /\ nodes = EmptyMap
    /\ claimers = EmptyMap
    /\ absent = EmptyMap

\* the variables of the image selection where it is not part of the specification
ImagesIdle ==
    /\ images = << >>
    /\ tags = [Company |-> << >>, Product |-> << >>, Version |-> << >>, Date |-> << >>, Time |-> << >>]
    /\ filtered = NotCalled
    /\ sorted = NotCalled
    /\ best = NotCalled

\* the variables of Set and String where they are not part of the specification
TagsIdle ==
    /\ bit = [Company |-> << >>, Product |-> << >>, Version |-> << >>, Date |-> << >>, Time |-> << >>]
    /\ setName = << >>
    /\ setRes = NotCalled
    /\ strRes = NotCalled
    /\ rtRes = NotCalled

\* the variables of the resolv.conf and kubeconfig deployment where they are
\* not part of the specification
NetIdle ==
    /\ dnsconf = [Servers |-> << >>, Searches |-> << >>, Options |-> << >>]
    /\ dnsConfigurer = None
    /\ cfg = None
    /\ resolvRes = NotCalled
    /\ rcRes = NotCalled
    /\ tokRes = NotCalled

\* the variables of the cloud-init file where it is not part of the specification
CloudInitIdle ==
    /\ cloudFile = [userData |-> [WriteFiles |-> << >>], kipFiles |-> EmptyMap]
    /\ lastCall = [op |-> "none"]
    /\ contentsRes = NotCalled

\* the variables of the object metadata where it is not part of the specification
MetaIdle ==
    /\ meta = [Name |-> "", Labels |-> None, CreationTimestamp |-> 0, UID |-> "", Namespace |-> ""]
    /\ creates = 0

\* the variables of deployPodVolumes where it is not part of the specification
DeployIdle ==
    /\ pod = [Name |-> "p", Namespace |-> "ns", Volumes |-> << >>]
    /\ rm = [ConfigMaps |-> EmptyMap, Secrets |-> EmptyMap]
    /\ agent = EmptyMap
    /\ status = "idle"
    /\ idx = 0
    /\ calls = << >>
    /\ fetchLog = << >>
    /\ err = [failed |-> FALSE]
    /\ prevStatus = "none"
    /\ podStatus = [Phase |-> "Dispatching", Reason |-> "", StartFailures |-> 0]

----------------------------------------------------------------------------
(* getConfigMapFiles and getSecretFiles *)

\* a plausible slip: any non-nil Optional counts as optional
IsOptionalNonNil(opt) == opt.some

\* Optional != nil && *Optional
IsOptional(opt) == opt.some /\ opt.val

\* a plausible slip: the volume's DefaultMode is ignored
DefaultModeIgnored(vol) == defaultVolumeFileMode

\* defaultMode := defaultVolumeFileMode; if DefaultMode != nil { defaultMode = *DefaultMode }
DefaultModeOf(vol) == IF vol.DefaultMode.some THEN vol.DefaultMode.val ELSE defaultVolumeFileMode

\* mode := defaultMode; if item.Mode != nil { mode = *item.Mode }
ItemMode(item, defaultMode) == IF item.Mode.some THEN item.Mode.val ELSE defaultMode

\* a plausible slip: item.Path is ignored
ArchivePathKeyOnly(item) == <<item.Key>>

\* archivePath := item.Key; if item.Path != "" { archivePath = item.Path }
ArchivePath(item) == IF item.Path # << >> THEN item.Path ELSE <<item.Key>>

\* api.KeyToPath{Key: k}
KeyItem(k) == [Key |-> k, Path |-> << >>, Mode |-> None]

\* the items projected: the listed ones, or one per key when none is listed;
\* dataOrder and binOrder are the orders in which the two maps are ranged over
ConfigMapItems(vol, dataOrder, binOrder) ==
    IF Len(vol.Items) = 0
    THEN [i \in 1..Len(dataOrder) |-> KeyItem(dataOrder[i])] \o [i \in 1..Len(binOrder) |-> KeyItem(binOrder[i])]
    ELSE vol.Items

SecretItems(vol, dataOrder) ==
    IF Len(vol.Items) = 0
    THEN [i \in 1..Len(dataOrder) |-> KeyItem(dataOrder[i])]
    ELSE vol.Items

\* the loop of getConfigMapFiles from item i on, acc being packageItems
RECURSIVE ConfigMapLoop(_, _, _, _, _, _)
ConfigMapLoop(items, i, c, optional, defaultMode, acc) ==
    IF i > Len(items) THEN [called |-> TRUE, ok |-> TRUE, files |-> acc]
    ELSE LET item == items[i] IN
         IF item.Key \in DOMAIN c.Data
         THEN ConfigMapLoop(items, i + 1, c, optional, defaultMode,
                  MapPut(acc, ArchivePath(item), [data |-> StringBytes(c.Data[item.Key]), mode |-> ItemMode(item, defaultMode)]))
         ELSE IF item.Key \in DOMAIN c.BinaryData
         THEN ConfigMapLoop(items, i + 1, c, optional, defaultMode,
                  MapPut(acc, ArchivePath(item), [data |-> c.BinaryData[item.Key], mode |-> ItemMode(item, defaultMode)]))
         ELSE IF optional
         THEN ConfigMapLoop(items, i + 1, c, optional, defaultMode, acc)
         ELSE [called |-> TRUE, ok |-> FALSE, key |-> item.Key]

getConfigMapFiles(vol, c, dataOrder, binOrder) ==
    ConfigMapLoop(ConfigMapItems(vol, dataOrder, binOrder), 1, c, IsOptional(vol.Optional), DefaultModeOf(vol), EmptyMap)

\* the loop of getSecretFiles from item i on
RECURSIVE SecretLoop(_, _, _, _, _, _)
SecretLoop(items, i, s, optional, defaultMode, acc) ==
    IF i > Len(items) THEN [called |-> TRUE, ok |-> TRUE, files |-> acc]
    ELSE LET item == items[i] IN
         IF item.Key \in DOMAIN s.Data
         THEN SecretLoop(items, i + 1, s, optional, defaultMode,
                  MapPut(acc, ArchivePath(item), [data |-> s.Data[item.Key], mode |-> ItemMode(item, defaultMode)]))
         ELSE IF optional
         THEN SecretLoop(items, i + 1, s, optional, defaultMode, acc)
         ELSE [called |-> TRUE, ok |-> FALSE, key |-> item.Key]

\* a plausible slip: the secret projection always uses the 0644 default
getSecretFilesFixedMode(vol, s, dataOrder) ==
    SecretLoop(SecretItems(vol, dataOrder), 1, s, IsOptional(vol.Optional), defaultVolumeFileMode, EmptyMap)

getSecretFiles(vol, s, dataOrder) ==
    SecretLoop(SecretItems(vol, dataOrder), 1, s, IsOptional(vol.Optional), DefaultModeOf(vol), EmptyMap)

\* the bytes a configmap holds under each of its keys (Data is looked up first)
ConfigMapBytes(c) ==
    [k \in (DOMAIN c.Data) \cup (DOMAIN c.BinaryData) |->
        IF k \in DOMAIN c.Data THEN StringBytes(c.Data[k]) ELSE c.BinaryData[k]]

----------------------------------------------------------------------------
(* SpecFiles: the two projections applied to every volume source, every    *)
(* configmap and the secret holding the same keys and bytes                 *)

InitFiles ==
    /\ cmVol \in VolumeSources
    /\ cm \in ConfigMaps
    /\ sec \in {s \in Secrets : s.Data = ConfigMapBytes(cm)}
    /\ cmRes = NotCalled
    /\ secRes = NotCalled
    /\ contents = EmptyMap
    /\ archive = NotCalled
    /\ DeployIdle
    /\ BindIdle
    /\ ImagesIdle
    /\ TagsIdle
    /\ NetIdle
    /\ CloudInitIdle
    /\ MetaIdle

CallGetConfigMapFiles ==
    /\ ~cmRes.called
    /\ \E dataOrder \in Orders(DOMAIN cm.Data), binOrder \in Orders(DOMAIN cm.BinaryData) :
           cmRes' = getConfigMapFiles(cmVol, cm, dataOrder, binOrder)
    /\ UNCHANGED <<cmVol, cm, sec, secRes, pkgVars, deployVars, bindVars, imageVars, tagVars, netVars, cloudInitVars, metaVars>>

CallGetSecretFiles ==
    /\ ~secRes.called
    /\ \E dataOrder \in Orders(DOMAIN sec.Data) :
           secRes' = getSecretFiles(cmVol, sec, dataOrder)
    /\ UNCHANGED <<cmVol, cm, sec, cmRes, pkgVars, deployVars, bindVars, imageVars, tagVars, netVars, cloudInitVars, metaVars>>

NextFiles == CallGetConfigMapFiles \/ CallGetSecretFiles

SpecFiles == InitFiles /\ [][NextFiles]_vars

----------------------------------------------------------------------------
(* Properties of the projections, stated on the inputs and the results     *)

\* the volume is marked optional: Optional is set and true
MarkedOptional == cmVol.Optional = Some(TRUE)

\* the keys of the configmap, and of the secret
CmKeys == (DOMAIN cm.Data) \cup (DOMAIN cm.BinaryData)
SecKeys == DOMAIN sec.Data

\* the listed items whose key the object with key set ks holds
PresentItems(ks) == {i \in 1..Len(cmVol.Items) : cmVol.Items[i].Key \in ks}
MissingItems(ks) == {i \in 1..Len(cmVol.Items) : cmVol.Items[i].Key \notin ks}

\* where the claim places an item, and the mode it gives it
ClaimedPath(item) == IF item.Path = << >> THEN <<item.Key>> ELSE item.Path
ClaimedMode(item) == IF item.Mode = None THEN (IF cmVol.DefaultMode = None THEN 420 ELSE cmVol.DefaultMode.val) ELSE item.Mode.val

\* the bytes the configmap stores under key k
CmStored(k) == IF k \in DOMAIN cm.Data THEN StringBytes(cm.Data[k]) ELSE cm.BinaryData[k]

\* what C2 says of one result r for an object with key set ks
MissingKeyRule(r, ks) ==
    r.called =>
        /\ (~MarkedOptional /\ MissingItems(ks) # {}) => (~r.ok /\ "files" \notin DOMAIN r)
        /\ MarkedOptional =>
              /\ r.ok
              /\ \A i \in PresentItems(ks) : ClaimedPath(cmVol.Items[i]) \in DOMAIN r.files
              /\ \A p \in DOMAIN r.files : cmVol.Items # << >> => \E i \in PresentItems(ks) : ClaimedPath(cmVol.Items[i]) = p

\* C2: a missing key fails the call unless the volume is optional, in which
\* case the item is skipped, the other listed items are projected and the
\* call succeeds; for getConfigMapFiles and for getSecretFiles
C2_MissingKey == MissingKeyRule(cmRes, CmKeys) /\ MissingKeyRule(secRes, SecKeys)

C2_Witness ==
    /\ cmRes.called /\ secRes.called
    /\ MarkedOptional
    /\ MissingItems(CmKeys) # {} /\ PresentItems(CmKeys) # {}
    /\ cmRes.ok /\ secRes.ok
    /\ DOMAIN cmRes.files # {} /\ DOMAIN secRes.files # {}

\* C3: with no Items, getConfigMapFiles returns exactly one file per key of
\* Data and BinaryData, at the key, with the stored bytes and the volume's
\* DefaultMode, or 0644 when that is nil
C3_AllKeys ==
    (cmRes.called /\ cmVol.Items = << >>) =>
        /\ cmRes.ok
        /\ DOMAIN cmRes.files = {<<k>> : k \in CmKeys}
        /\ \A k \in CmKeys :
              /\ cmRes.files[<<k>>].data = CmStored(k)
              /\ cmRes.files[<<k>>].mode = (IF cmVol.DefaultMode = None THEN 420 ELSE cmVol.DefaultMode.val)

C3_Witness ==
    /\ cmRes.called /\ cmVol.Items = << >>
    /\ DOMAIN cm.Data # {} /\ DOMAIN cm.BinaryData # {}
    /\ cmVol.DefaultMode # None
    /\ Cardinality(DOMAIN cmRes.files) = 2

\* C4: with Items, getConfigMapFiles projects only the listed keys, each at
\* item.Path when set and at item.Key otherwise, with item.Mode when set and
\* the volume default otherwise
C4_ListedOnly ==
    (cmRes.called /\ cmVol.Items # << >> /\ cmRes.ok) =>
        /\ \A p \in DOMAIN cmRes.files :
              \E i \in PresentItems(CmKeys) :
                  /\ ClaimedPath(cmVol.Items[i]) = p
                  /\ cmRes.files[p].data = CmStored(cmVol.Items[i].Key)
                  /\ cmRes.files[p].mode = ClaimedMode(cmVol.Items[i])
        /\ \A i \in PresentItems(CmKeys) : ClaimedPath(cmVol.Items[i]) \in DOMAIN cmRes.files
        /\ \A k \in CmKeys :
              (\A i \in 1..Len(cmVol.Items) : cmVol.Items[i].Key # k /\ cmVol.Items[i].Path # <<k>>) => <<k>> \notin DOMAIN cmRes.files

C4_Witness ==
    /\ cmRes.called /\ cmRes.ok
    /\ Len(cmVol.Items) = 2
    /\ cmVol.Items[1].Path # << >> /\ cmVol.Items[1].Mode # None
    /\ cmVol.Items[2].Path = << >> /\ cmVol.Items[2].Mode = None
    /\ Cardinality(CmKeys) = 2 /\ cmVol.Items[1].Key = cmVol.Items[2].Key
    /\ Cardinality(DOMAIN cmRes.files) = 2

\* C6: getSecretFiles returns what getConfigMapFiles returns for a configmap
\* holding the same keys and bytes under the same volume settings (the same
\* files, or the same failure), and every file holds stored secret bytes as
\* they are
C6_SecretAsConfigMap ==
    (cmRes.called /\ secRes.called /\ sec.Data = [k \in CmKeys |-> CmStored(k)]) =>
        /\ secRes = cmRes
        /\ secRes.ok =>
              \A p \in DOMAIN secRes.files :
                  \E k \in SecKeys :
                      /\ secRes.files[p].data = sec.Data[k]
                      /\ cmVol.Items = << >> => p = <<k>>
                      /\ cmVol.Items # << >> => \E i \in 1..Len(cmVol.Items) : cmVol.Items[i].Key = k /\ ClaimedPath(cmVol.Items[i]) = p

C6_Witness ==
    /\ cmRes.called /\ secRes.called
    /\ DOMAIN cm.Data # {} /\ DOMAIN cm.BinaryData # {}
    /\ cmVol.DefaultMode # None
    /\ secRes.ok /\ Cardinality(DOMAIN secRes.files) = 2
    /\ \E p \in DOMAIN secRes.files : secRes.files[p].data = <<1, 2>>

----------------------------------------------------------------------------
(* makeDeployPackage *)

PkgPaths == {<<"a">>, <<"x", "y">>, <<".", "a">>, <<"..", "e">>, <<"", "etc", "resolv.conf">>}
PkgData == {<< >>, <<65>>, <<1, 2>>}
PkgModes == {420, 384}  \* 0644, 0600
PackageFiles == [data : PkgData, mode : PkgModes]
ContentMaps == UNION {[D -> PackageFiles] : D \in {S \in SUBSET PkgPaths : Cardinality(S) <= MaxFiles}}

\* tar.TypeReg, the byte '0'
TypeReg == 48

\* a path string starts with "/"
Rooted(p) == Len(p) >= 2 /\ p[1] = ""

\* the component loop of filepath.Clean: empty and "." components are dropped,
\* ".." removes the component before it, or stays when there is none to remove
\* and the path is not rooted
RECURSIVE CleanLoop(_, _, _)
CleanLoop(comps, rooted, out) ==
    IF comps = << >> THEN out
    ELSE LET c == Head(comps) IN
         IF c = "" \/ c = "." THEN CleanLoop(Tail(comps), rooted, out)
         ELSE IF c = ".."
         THEN IF out # << >> /\ out[Len(out)] # ".."
              THEN CleanLoop(Tail(comps), rooted, SubSeq(out, 1, Len(out) - 1))
              ELSE IF rooted THEN CleanLoop(Tail(comps), rooted, out)
              ELSE CleanLoop(Tail(comps), rooted, Append(out, ".."))
         ELSE CleanLoop(Tail(comps), rooted, Append(out, c))

\* filepath.Clean
Clean(p) ==
    LET out == CleanLoop(p, Rooted(p), << >>) IN
    IF Rooted(p) THEN (IF out = << >> THEN <<"", "">> ELSE <<"">> \o out)
    ELSE IF out = << >> THEN <<".">> ELSE out

\* filepath.Join of three elements: the non-empty ones, joined by "/", cleaned
Join(e1, e2, e3) == IF e1 \o e2 \o e3 = << >> THEN << >> ELSE Clean(e1 \o e2 \o e3)

\* a plausible slip: every entry gets the default mode
TarHeaderDefaultMode(path, file) ==
    [Name |-> Join(<<".">>, <<"ROOTFS">>, path), Mode |-> defaultVolumeFileMode, Size |-> Len(file.data), Typeflag |-> TypeReg, Uid |-> 0, Gid |-> 0]

\* hdr := &tar.Header{...}
TarHeader(path, file) ==
    [Name |-> Join(<<".">>, <<"ROOTFS">>, path), Mode |-> file.mode, Size |-> Len(file.data), Typeflag |-> TypeReg, Uid |-> 0, Gid |-> 0]

\* the entries makeDeployPackage writes (header, then the data) when the map
\* is ranged over in the given order; the buffer returned is the gzip of the
\* tar stream holding them
makeDeployPackage(m, order) ==
    [called |-> TRUE, ok |-> TRUE,
     entries |-> [i \in 1..Len(order) |-> [hdr |-> TarHeader(order[i], m[order[i]]), data |-> m[order[i]].data]]]

----------------------------------------------------------------------------
(* SpecPackage: makeDeployPackage applied to every map of at most MaxFiles  *)
(* files                                                                    *)

InitPackage ==
    /\ contents \in ContentMaps
    /\ archive = NotCalled
    /\ cmVol = [Items |-> << >>, DefaultMode |-> None, Optional |-> None]
    /\ cm = [Data |-> EmptyMap, BinaryData |-> EmptyMap]
    /\ sec = [Data |-> EmptyMap]
    /\ cmRes = NotCalled
    /\ secRes = NotCalled
    /\ DeployIdle
    /\ BindIdle
    /\ ImagesIdle
    /\ TagsIdle
    /\ NetIdle
    /\ CloudInitIdle
    /\ MetaIdle

CallMakeDeployPackage ==
    /\ ~archive.called
    /\ \E order \in Orders(DOMAIN contents) : archive' = makeDeployPackage(contents, order)
    /\ UNCHANGED <<contents, filesVars, deployVars, bindVars, imageVars, tagVars, netVars, cloudInitVars, metaVars>>

NextPackage == CallMakeDeployPackage

SpecPackage == InitPackage /\ [][NextPackage]_vars

\* entry e carries file f: uid = gid = 0, regular file, the mode, size and
\* bytes of f
EntryCarries(e, f) ==
    /\ e.hdr.Uid = 0 /\ e.hdr.Gid = 0
    /\ e.hdr.Typeflag = 48
    /\ e.hdr.Mode = f.mode
    /\ e.hdr.Size = Len(f.data)
    /\ e.data = f.data

\* a relative path with no empty, "." or ".." component
PlainPath(p) == p # << >> /\ \A i \in 1..Len(p) : p[i] \notin {"", ".", ".."}

----------------------------------------------------------------------------
(* deployPodVolumes *)

\* most volumes of a pod
MaxVolumes == 2

VolumeNames == <<"v1", "v2", "v3", "v4">>
VolumeKinds == {"EmptyDir", "PackagePath", "ConfigMap", "Secret", "HostPath", "Projected"}
ObjectName == "obj"

\* the configmap / secret volume sources of the pods: ConfigMap.Name and
\* Secret.SecretName are both the field Name
PodVolumeSources ==
    [Name : {ObjectName}, Items : {<< >>, <<KeyItem("zz")>>}, DefaultMode : {None}, Optional : {None, Some(TRUE), Some(FALSE)}]

\* a volume without its name: the one field of VolumeSource that is set
VolumeBodies ==
    [Kind : {"ConfigMap", "Secret"}, Source : PodVolumeSources]
        \cup [Kind : VolumeKinds \ {"ConfigMap", "Secret"}, Source : {None}]

\* the volume lists of the pods: volume i is named VolumeNames[i]
VolumeLists ==
    UNION {{[i \in 1..k |-> [Name |-> VolumeNames[i], Kind |-> b[i].Kind, Source |-> b[i].Source]] : b \in [1..k -> VolumeBodies]} : k \in 0..MaxVolumes}

\* the objects the resource manager may hold under ObjectName
StoredConfigMap == [Data |-> [k \in {"a"} |-> "A"], BinaryData |-> [k \in {"b"} |-> <<1, 2>>]]
StoredSecret == [Data |-> [k \in {"a"} |-> <<65>>]]

\* vol.ConfigMap != nil
HasConfigMap(vol) == vol.Kind = "ConfigMap"

\* a plausible slip: the secret branch of the loop is lost
HasSecretNever(vol) == FALSE

\* vol.Secret != nil
HasSecret(vol) == vol.Kind = "Secret"

\* rm.GetConfigMap / rm.GetSecret: the object held under the name, NotFound
\* when there is none, or another error
Fetch(held, name) ==
    (IF name \in DOMAIN held THEN {[err |-> "none", obj |-> held[name]]} ELSE {[err |-> "NotFound"]})
        \cup {[err |-> "Other"]}

\* a plausible slip: the fetch never aborts the call
FetchAbortsNever(e, optional) == FALSE

\* a plausible slip: an optional volume swallows every fetch error
FetchAbortsUnlessOptional(e, optional) == ~optional

\* if !(errors.IsNotFound(err) && optional) { return ... }
FetchAborts(e, optional) == ~(e = "NotFound" /\ optional)

\* &v1.ConfigMap{ObjectMeta: ...} and &v1.Secret{ObjectMeta: ...}
EmptyConfigMap == [Data |-> EmptyMap, BinaryData |-> EmptyMap]
EmptySecret == [Data |-> EmptyMap]

\* the cell agent unpacking a package: the files by entry name, a later entry
\* of the same name replacing an earlier one
RECURSIVE Unpack(_, _, _)
Unpack(entries, i, acc) ==
    IF i > Len(entries) THEN acc
    ELSE Unpack(entries, i + 1, MapPut(acc, entries[i].hdr.Name, [data |-> entries[i].data, mode |-> entries[i].hdr.Mode]))

\* the cell agent's Deploy(pod, volume, package): the package replaces what
\* the agent held for <<pod, volume>>
AgentDeploy(a, podName, volName, entries) == MapPut(a, <<podName, volName>>, Unpack(entries, 1, EmptyMap))

NoErr == [failed |-> FALSE]

\* return util.WrapError(...) at volume i
Abort(i, step) ==
    /\ status' = "err"
    /\ err' = [failed |-> TRUE, at |-> i, step |-> step]
    /\ UNCHANGED idx

\* a plausible slip: nothing is deployed for a volume without files
DeployFilesSkipEmpty(files) ==
    IF files = EmptyMap
    THEN /\ idx' = idx + 1
         /\ UNCHANGED <<agent, calls, status, err>>
    ELSE \E order \in Orders(DOMAIN files), deployOk \in BOOLEAN, stored \in BOOLEAN :
             LET vol == pod.Volumes[idx]
                 payload == makeDeployPackage(files, order) IN
             /\ calls' = Append(calls, [pod |-> pod.Name, vol |-> vol.Name, at |-> idx, files |-> Unpack(payload.entries, 1, EmptyMap)])
             /\ agent' = IF deployOk \/ stored THEN AgentDeploy(agent, pod.Name, vol.Name, payload.entries) ELSE agent
             /\ IF deployOk
                THEN idx' = idx + 1 /\ UNCHANGED <<status, err>>
                ELSE Abort(idx, "deploy")

\* payload, err := makeDeployPackage(packageFiles);
\* err = client.Deploy(pod.Name, vol.Name, bufio.NewReader(payload)):
\* the call may fail, with the agent having taken the package or not
DeployFiles(files) ==
    \E order \in Orders(DOMAIN files), deployOk \in BOOLEAN, stored \in BOOLEAN :
        LET vol == pod.Volumes[idx]
            payload == makeDeployPackage(files, order) IN
        /\ calls' = Append(calls, [pod |-> pod.Name, vol |-> vol.Name, at |-> idx, files |-> Unpack(payload.entries, 1, EmptyMap)])
        /\ agent' = IF deployOk \/ stored THEN AgentDeploy(agent, pod.Name, vol.Name, payload.entries) ELSE agent
        /\ IF deployOk
           THEN idx' = idx + 1 /\ UNCHANGED <<status, err>>
           ELSE Abort(idx, "deploy")

\* the variables of the projections and of the packaging where they are not
\* part of the specification
FilesIdle ==
    /\ cmVol = [Items |-> << >>, DefaultMode |-> None, Optional |-> None]
    /\ cm = [Data |-> EmptyMap, BinaryData |-> EmptyMap]
    /\ sec = [Data |-> EmptyMap]
    /\ cmRes = NotCalled
    /\ secRes = NotCalled

PackageIdle ==
    /\ contents = EmptyMap
    /\ archive = NotCalled

InitDeploy ==
    /\ pod \in [Name : {"p"}, Namespace : {"ns"}, Volumes : VolumeLists]
    /\ rm \in [ConfigMaps : PartialMaps({ObjectName}, {StoredConfigMap}), Secrets : PartialMaps({ObjectName}, {StoredSecret})]
    /\ agent = EmptyMap
    /\ status = "idle"
    /\ idx = 0
    /\ calls = << >>
    /\ fetchLog = << >>
    /\ err = NoErr
    /\ prevStatus = "none"
    /\ podStatus \in [Phase : {"Dispatching"}, Reason : {""}, StartFailures : {0, 1}]
    /\ FilesIdle
    /\ PackageIdle
    /\ BindIdle
    /\ ImagesIdle
    /\ TagsIdle
    /\ NetIdle
    /\ CloudInitIdle
    /\ MetaIdle

\* the error deployPodVolumes returned is a missing reference: a listed key
\* the object lacks, or a source object that is not there and not optional
MissingReference ==
    /\ err.failed
    /\ \/ err.step = "payload"
       \/ err.step = "fetch" /\ fetchLog[err.at] = "NotFound"

\* deployPodVolumes is called, for the first time or again after it returned:
\* the dispatch of a pod in Dispatching, retried unless the pod is to fail
CallDeployPodVolumes ==
    /\ status \in {"idle", "ok", "err"}
    /\ podStatus.Phase = "Dispatching"
    /\ ~(status = "err" /\ MissingReference)
    /\ prevStatus' = IF status = "idle" THEN "none" ELSE status
    /\ status' = "running"
    /\ idx' = 1
    /\ calls' = << >>
    /\ fetchLog' = << >>
    /\ err' = NoErr
    /\ UNCHANGED <<pod, rm, agent, podStatus, filesVars, pkgVars, bindVars, imageVars, tagVars, netVars, cloudInitVars, metaVars>>

\* one turn of the loop at a configmap volume
DeployConfigMapVolume ==
    /\ status = "running" /\ idx <= Len(pod.Volumes)
    /\ HasConfigMap(pod.Volumes[idx])
    /\ LET src == pod.Volumes[idx].Source
           optional == IsOptional(src.Optional) IN
       \E got \in Fetch(rm.ConfigMaps, src.Name) :
           /\ fetchLog' = Append(fetchLog, got.err)
           /\ IF got.err # "none" /\ FetchAborts(got.err, optional)
              THEN Abort(idx, "fetch") /\ UNCHANGED <<agent, calls>>
              ELSE LET configMap == IF got.err = "none" THEN got.obj ELSE EmptyConfigMap IN
                   \E dataOrder \in Orders(DOMAIN configMap.Data), binOrder \in Orders(DOMAIN configMap.BinaryData) :
                       LET packageFiles == getConfigMapFiles(src, configMap, dataOrder, binOrder) IN
                       IF ~packageFiles.ok
                       THEN Abort(idx, "payload") /\ UNCHANGED <<agent, calls>>
                       ELSE DeployFiles(packageFiles.files)
    /\ UNCHANGED <<pod, rm, prevStatus, podStatus, filesVars, pkgVars, bindVars, imageVars, tagVars, netVars, cloudInitVars, metaVars>>

\* one turn of the loop at a secret volume
DeploySecretVolume ==
    /\ status = "running" /\ idx <= Len(pod.Volumes)
    /\ ~HasConfigMap(pod.Volumes[idx])
    /\ HasSecret(pod.Volumes[idx])
    /\ LET src == pod.Volumes[idx].Source
           optional == IsOptional(src.Optional) IN
       \E got \in Fetch(rm.Secrets, src.Name) :
           /\ fetchLog' = Append(fetchLog, got.err)
           /\ IF got.err # "none" /\ FetchAborts(got.err, optional)
              THEN Abort(idx, "fetch") /\ UNCHANGED <<agent, calls>>
              ELSE LET secret == IF got.err = "none" THEN got.obj ELSE EmptySecret IN
                   \E dataOrder \in Orders(DOMAIN secret.Data) :
                       LET packageFiles == getSecretFiles(src, secret, dataOrder) IN
                       IF ~packageFiles.ok
                       THEN Abort(idx, "payload") /\ UNCHANGED <<agent, calls>>
                       ELSE DeployFiles(packageFiles.files)
    /\ UNCHANGED <<pod, rm, prevStatus, podStatus, filesVars, pkgVars, bindVars, imageVars, tagVars, netVars, cloudInitVars, metaVars>>

\* one turn of the loop at a volume that is neither
SkipVolume ==
    /\ status = "running" /\ idx <= Len(pod.Volumes)
    /\ ~HasConfigMap(pod.Volumes[idx])
    /\ ~HasSecret(pod.Volumes[idx])
    /\ idx' = idx + 1
    /\ fetchLog' = Append(fetchLog, "unfetched")
    /\ UNCHANGED <<pod, rm, agent, status, calls, err, prevStatus, podStatus, filesVars, pkgVars, bindVars, imageVars, tagVars, netVars, cloudInitVars, metaVars>>

\* the loop is over: return nil
ReturnNil ==
    /\ status = "running" /\ idx > Len(pod.Volumes)
    /\ status' = "ok"
    /\ UNCHANGED <<pod, rm, agent, idx, calls, fetchLog, err, prevStatus, podStatus, filesVars, pkgVars, bindVars, imageVars, tagVars, netVars, cloudInitVars, metaVars>>

\* the dispatcher on a missing reference: the pod fails, with the reason
\* and one more start failure
FailPodMissingReference ==
    /\ status = "err"
    /\ podStatus.Phase = "Dispatching"
    /\ MissingReference
    /\ podStatus' = [Phase |-> "Failed", Reason |-> "VolumeMissing", StartFailures |-> podStatus.StartFailures + 1]
    /\ UNCHANGED <<pod, rm, agent, status, idx, calls, fetchLog, err, prevStatus, filesVars, pkgVars, bindVars, imageVars, tagVars, netVars, cloudInitVars, metaVars>>

NextDeploy ==
    \/ FailPodMissingReference
    \/ CallDeployPodVolumes
    \/ DeployConfigMapVolume
    \/ DeploySecretVolume
    \/ SkipVolume
    \/ ReturnNil

SpecDeploy == InitDeploy /\ [][NextDeploy]_vars

----------------------------------------------------------------------------
(* Properties of deployPodVolumes *)

\* volume i of the pod is a configmap or a secret volume
Deployable(i) == pod.Volumes[i].Kind \in {"ConfigMap", "Secret"}

\* volume i is a configmap or secret volume marked optional
VolumeOptional(i) == Deployable(i) /\ pod.Volumes[i].Source.Optional = Some(TRUE)

\* the indices below n of the configmap and secret volumes, in order
RECURSIVE DeployableBelow(_)
DeployableBelow(n) ==
    IF n <= 1 THEN << >>
    ELSE IF Deployable(n - 1) THEN Append(DeployableBelow(n - 1), n - 1) ELSE DeployableBelow(n - 1)

\* the volumes the Deploy calls were made for, in order
CallIndices == [c \in 1..Len(calls) |-> calls[c].at]

\* C1: a fetch that fails with NotFound at an optional volume is replaced by
\* an empty object and the volume is deployed, as an empty package; any other
\* failed fetch aborts the call, the Deploy calls made being those of the
\* configmap and secret volumes before the failing one
C1_FetchFailure ==
    \A i \in 1..Len(fetchLog) :
        /\ (fetchLog[i] = "NotFound" /\ VolumeOptional(i)) =>
              \E c \in 1..Len(calls) : calls[c].at = i /\ calls[c].vol = pod.Volumes[i].Name /\ calls[c].files = EmptyMap
        /\ ((fetchLog[i] = "NotFound" /\ ~VolumeOptional(i)) \/ fetchLog[i] = "Other") =>
              /\ status = "err"
              /\ err.failed /\ err.at = i
              /\ CallIndices = DeployableBelow(i)

C1_Witness ==
    /\ status = "err"
    /\ Len(fetchLog) = 2
    /\ fetchLog[1] = "NotFound" /\ VolumeOptional(1)
    /\ fetchLog[2] = "Other" /\ VolumeOptional(2)
    /\ Len(calls) = 1

\* the files the agent holds for volume i after a call that deployed it: one
\* per key of the stored object when the volume lists no item, none when the
\* object is missing or the one listed key is (the volume being optional)
DeployedFiles(i) ==
    LET v == pod.Volumes[i]
        held == IF v.Kind = "ConfigMap" THEN rm.ConfigMaps ELSE rm.Secrets IN
    IF v.Source.Name \notin DOMAIN held \/ v.Source.Items # << >> THEN EmptyMap
    ELSE IF v.Kind = "ConfigMap"
    THEN [n \in {<<"ROOTFS", "a">>, <<"ROOTFS", "b">>} |-> IF n[2] = "a" THEN [data |-> <<65>>, mode |-> 420] ELSE [data |-> <<1, 2>>, mode |-> 420]]
    ELSE [n \in {<<"ROOTFS", "a">>} |-> [data |-> <<65>>, mode |-> 420]]

\* what one successful call leaves on an agent that held nothing
SingleRunAgent ==
    [k \in {<<pod.Name, pod.Volumes[i].Name>> : i \in {j \in 1..Len(pod.Volumes) : Deployable(j)}} |->
        DeployedFiles(CHOOSE i \in 1..Len(pod.Volumes) : pod.Volumes[i].Name = k[2])]

\* C7: whenever a call succeeds, be it the first, one after a complete call
\* or one after a failed call, the agent holds what a single successful call
\* leaves; and all through a call made after a complete one the agent holds
\* just that
C7_Idempotent ==
    /\ status = "ok" => agent = SingleRunAgent
    /\ (prevStatus = "ok" /\ status # "idle") => agent = SingleRunAgent

C7_Witness ==
    /\ status = "ok"
    /\ prevStatus = "err"
    /\ Len(calls) = 2
    /\ agent = SingleRunAgent
    /\ \E k \in DOMAIN agent : agent[k] # EmptyMap

\* C8: a successful call has made one Deploy call per configmap or secret
\* volume, in the order of pod.Spec.Volumes, under (pod.Name, volume.Name),
\* and no call fails at a volume of another kind
C8_DeployOrder ==
    /\ status = "ok" =>
          /\ CallIndices = DeployableBelow(Len(pod.Volumes) + 1)
          /\ \A c \in 1..Len(calls) : calls[c].pod = pod.Name /\ calls[c].vol = pod.Volumes[calls[c].at].Name
    /\ err.failed => Deployable(err.at)
    /\ \A c \in 1..Len(calls) : Deployable(calls[c].at)

C8_Witness ==
    /\ status = "ok"
    /\ Len(pod.Volumes) = 2
    /\ pod.Volumes[1].Kind = "Projected"
    /\ pod.Volumes[2].Kind = "Secret"
    /\ Len(calls) = 1 /\ calls[1].vol = "v2"

\* the keys of the object volume i names, as the resource manager holds it
StoredKeys(i) ==
    LET v == pod.Volumes[i] IN
    IF v.Kind = "ConfigMap"
    THEN DOMAIN rm.ConfigMaps[v.Source.Name].Data \cup DOMAIN rm.ConfigMaps[v.Source.Name].BinaryData
    ELSE DOMAIN rm.Secrets[v.Source.Name].Data

\* the call reached volume i, a configmap or secret volume that is not
\* optional and whose object is not there or lacks a listed key
RequiredMissing(i) ==
    /\ Deployable(i)
    /\ ~VolumeOptional(i)
    /\ \/ fetchLog[i] = "NotFound"
       \/ /\ fetchLog[i] = "none"
          /\ \E k \in 1..Len(pod.Volumes[i].Source.Items) : pod.Volumes[i].Source.Items[k].Key \notin StoredKeys(i)

HitsMissing == \E i \in 1..Len(fetchLog) : RequiredMissing(i)

\* the step fails the pod: Failed, a reason, one more start failure
PodFails ==
    /\ podStatus'.Phase = "Failed"
    /\ podStatus'.Reason # ""
    /\ podStatus'.StartFailures = podStatus.StartFailures + 1

----------------------------------------------------------------------------
(* The binder: claim and unbind on the versioned pod and node records       *)

PodNames == {"p1", "p2"}
NodeNames == {"n1", "n2"}
Claimants == {"c1", "c2"}

\* the values of api.PodPhase and api.NodePhase
PodPhases == {"Waiting", "Dispatching", "Running", "Succeeded", "Failed", "Terminated"}
NodePhases == {"Creating", "Created", "Available", "Claimed", "Cleaning", "Terminating", "Terminated"}

\* a plausible slip: PodFailed is missing from the case list
IsTerminalPodPhaseNoFailed(phase) == phase \in {"Terminated", "Succeeded"}

\* switch phase { case PodTerminated, PodSucceeded, PodFailed: return true; default: return false }
IsTerminalPodPhase(phase) ==
    CASE phase = "Terminated" -> TRUE
      [] phase = "Succeeded" -> TRUE
      [] phase = "Failed" -> TRUE
      [] OTHER -> FALSE

\* the claim of pod p for node n is possible on records that read so
PodClaimable(podRec) == podRec.Phase = "Waiting" /\ podRec.BoundNodeName = ""
NodeClaimable(nodeRec) == nodeRec.Phase = "Available" /\ nodeRec.BoundPodName = ""

IdleClaimer == [pc |-> "idle", result |-> "none"]

\* a plausible slip: the node record is written without comparing its version
ClaimWriteNodeUnchecked(ps, ns, cl) ==
    IF ps[cl.pod].Version = cl.podVersion
    THEN [result |-> "ok",
          pods |-> [ps EXCEPT ![cl.pod] = [Phase |-> "Dispatching", BoundNodeName |-> cl.node, Version |-> @.Version + 1]],
          nodes |-> [ns EXCEPT ![cl.node] = [Phase |-> "Claimed", BoundPodName |-> cl.pod, Version |-> @.Version + 1]]]
    ELSE [result |-> "ClaimConflict", pods |-> ps, nodes |-> ns]

\* a plausible slip: the two writes are not one commit, the pod record is
\* written although the write of the node record is refused
ClaimWritePodAlone(ps, ns, cl) ==
    IF ps[cl.pod].Version = cl.podVersion /\ ns[cl.node].Version = cl.nodeVersion
    THEN [result |-> "ok",
          pods |-> [ps EXCEPT ![cl.pod] = [Phase |-> "Dispatching", BoundNodeName |-> cl.node, Version |-> @.Version + 1]],
          nodes |-> [ns EXCEPT ![cl.node] = [Phase |-> "Claimed", BoundPodName |-> cl.pod, Version |-> @.Version + 1]]]
    ELSE IF ps[cl.pod].Version = cl.podVersion
    THEN [result |-> "ClaimConflict",
          pods |-> [ps EXCEPT ![cl.pod] = [Phase |-> "Dispatching", BoundNodeName |-> cl.node, Version |-> @.Version + 1]],
          nodes |-> ns]
    ELSE [result |-> "ClaimConflict", pods |-> ps, nodes |-> ns]

\* the two versioned writes of a claim: both commit when both records still
\* carry the versions read, and otherwise neither does and the claim fails
\* with ClaimConflict
ClaimWrite(ps, ns, cl) ==
    IF ps[cl.pod].Version = cl.podVersion /\ ns[cl.node].Version = cl.nodeVersion
    THEN [result |-> "ok",
          pods |-> [ps EXCEPT ![cl.pod] = [Phase |-> "Dispatching", BoundNodeName |-> cl.node, Version |-> @.Version + 1]],
          nodes |-> [ns EXCEPT ![cl.node] = [Phase |-> "Claimed", BoundPodName |-> cl.pod, Version |-> @.Version + 1]]]
    ELSE [result |-> "ClaimConflict", pods |-> ps, nodes |-> ns]

InitBind ==
    /\ pods = [p \in PodNames |-> [Phase |-> "Waiting", BoundNodeName |-> "", Version |-> 0]]
    /\ nodes = [n \in NodeNames |-> [Phase |-> "Available", BoundPodName |-> "", Version |-> 0]]
    /\ claimers = [c \in Claimants |-> IdleClaimer]
    /\ absent = [n \in NodeNames |-> 0]
    /\ FilesIdle
    /\ PackageIdle
    /\ DeployIdle
    /\ ImagesIdle
    /\ TagsIdle
    /\ NetIdle
    /\ CloudInitIdle
    /\ MetaIdle

\* a claim of node n for pod p starts; work for one pod is serialized, so no
\* other claim for p is in flight
ClaimBegin(c, p, n) ==
    /\ claimers[c].pc = "idle"
    /\ \A d \in DOMAIN claimers : claimers[d].pc \in {"readPod", "readNode", "commit"} => claimers[d].pod # p
    /\ claimers' = [claimers EXCEPT ![c] = [pc |-> "readPod", result |-> "none", pod |-> p, node |-> n]]
    /\ UNCHANGED <<pods, nodes, absent, filesVars, pkgVars, deployVars, imageVars, tagVars, netVars, cloudInitVars, metaVars>>

\* the claim reads the pod record and its version
ClaimReadPod(c) ==
    /\ claimers[c].pc = "readPod"
    /\ claimers' = [claimers EXCEPT ![c] =
           IF PodClaimable(pods[@.pod])
           THEN [pc |-> "readNode", result |-> "none", pod |-> @.pod, node |-> @.node, podVersion |-> pods[@.pod].Version]
           ELSE IdleClaimer]
    /\ UNCHANGED <<pods, nodes, absent, filesVars, pkgVars, deployVars, imageVars, tagVars, netVars, cloudInitVars, metaVars>>

\* the claim reads the node record and its version
ClaimReadNode(c) ==
    /\ claimers[c].pc = "readNode"
    /\ claimers' = [claimers EXCEPT ![c] =
           IF NodeClaimable(nodes[@.node])
           THEN [pc |-> "commit", result |-> "none", pod |-> @.pod, node |-> @.node, podVersion |-> @.podVersion, nodeVersion |-> nodes[@.node].Version]
           ELSE IdleClaimer]
    /\ UNCHANGED <<pods, nodes, absent, filesVars, pkgVars, deployVars, imageVars, tagVars, netVars, cloudInitVars, metaVars>>

\* the claim writes both records
ClaimCommit(c) ==
    /\ claimers[c].pc = "commit"
    /\ LET w == ClaimWrite(pods, nodes, claimers[c]) IN
       /\ pods' = w.pods
       /\ nodes' = w.nodes
       /\ claimers' = [claimers EXCEPT ![c].pc = "done", ![c].result = w.result]
    /\ UNCHANGED <<absent, filesVars, pkgVars, deployVars, imageVars, tagVars, netVars, cloudInitVars, metaVars>>

\* the claim is over; after a conflict it is retried with fresh reads
ClaimEnd(c) ==
    /\ claimers[c].pc = "done"
    /\ claimers' = [claimers EXCEPT ![c] = IdleClaimer]
    /\ UNCHANGED <<pods, nodes, absent, filesVars, pkgVars, deployVars, imageVars, tagVars, netVars, cloudInitVars, metaVars>>

\* a bound pod reaches a terminal phase
PodFinish(p) ==
    /\ pods[p].BoundNodeName # ""
    /\ ~IsTerminalPodPhase(pods[p].Phase)
    /\ \E ph \in {q \in PodPhases : IsTerminalPodPhase(q)} :
           pods' = [pods EXCEPT ![p].Phase = ph, ![p].Version = @ + 1]
    /\ UNCHANGED <<nodes, claimers, absent, filesVars, pkgVars, deployVars, imageVars, tagVars, netVars, cloudInitVars, metaVars>>

\* unbind, the counterpart of the claim: the terminal pod and its node are
\* released in one commit, the node going to Cleaning
Unbind(p) ==
    /\ IsTerminalPodPhase(pods[p].Phase)
    /\ pods[p].BoundNodeName # ""
    /\ LET n == pods[p].BoundNodeName IN
       /\ pods' = [pods EXCEPT ![p].BoundNodeName = "", ![p].Version = @ + 1]
       /\ nodes' = [nodes EXCEPT ![n] = [Phase |-> "Cleaning", BoundPodName |-> "", Version |-> @.Version + 1]]
    /\ UNCHANGED <<claimers, absent, filesVars, pkgVars, deployVars, imageVars, tagVars, netVars, cloudInitVars, metaVars>>

\* a cleaned node is available again
NodeReset(n) ==
    /\ nodes[n].Phase = "Cleaning"
    /\ nodes' = [nodes EXCEPT ![n].Phase = "Available", ![n].Version = @ + 1]
    /\ UNCHANGED <<pods, claimers, absent, filesVars, pkgVars, deployVars, imageVars, tagVars, netVars, cloudInitVars, metaVars>>

NextBind ==
    \/ \E c \in Claimants, p \in PodNames, n \in NodeNames : ClaimBegin(c, p, n)
    \/ \E c \in Claimants : ClaimReadPod(c)
    \/ \E c \in Claimants : ClaimReadNode(c)
    \/ \E c \in Claimants : ClaimCommit(c)
    \/ \E c \in Claimants : ClaimEnd(c)
    \/ \E p \in PodNames : PodFinish(p)
    \/ \E p \in PodNames : Unbind(p)
    \/ \E n \in NodeNames : NodeReset(n)

SpecBind == InitBind /\ [][NextBind]_vars

----------------------------------------------------------------------------
(* Properties of the binding *)

\* two claims that ran concurrently on node n: both read n at the same
\* version and both have written
ConcurrentOn(c, d, n) ==
    /\ c # d
    /\ claimers[c].pc = "done" /\ claimers[d].pc = "done"
    /\ claimers[c].node = n /\ claimers[d].node = n
    /\ claimers[c].nodeVersion = claimers[d].nodeVersion

\* C9: at most one pod is bound to a node and at most one node to a pod; of
\* two concurrent claims on one node exactly one succeeds
C9_OneToOne ==
    /\ \A n \in NodeNames : Cardinality({p \in PodNames : pods[p].BoundNodeName = n}) <= 1
    /\ \A p \in PodNames : Cardinality({n \in NodeNames : nodes[n].BoundPodName = p}) <= 1
    /\ \A c, d \in Claimants, n \in NodeNames :
          ConcurrentOn(c, d, n) =>
              /\ claimers[c].result = "ok" \/ claimers[d].result = "ok"
              /\ ~(claimers[c].result = "ok" /\ claimers[d].result = "ok")
              /\ {claimers[c].result, claimers[d].result} = {"ok", "ClaimConflict"}

C9_Witness ==
    /\ ConcurrentOn("c1", "c2", "n1")
    /\ claimers["c1"].pod = "p1" /\ claimers["c2"].pod = "p2"
    /\ claimers["c2"].result = "ok" /\ claimers["c1"].result = "ClaimConflict"
    /\ pods["p2"].BoundNodeName = "n1" /\ pods["p1"].BoundNodeName = ""

\* a pod bound to a node is the pod that node is bound to
MutuallyBound ==
    \A p \in PodNames :
        pods[p].BoundNodeName # "" =>
            \E n \in NodeNames : n = pods[p].BoundNodeName /\ nodes[n].BoundPodName = p

\* a claim's write sets both bindings, or fails with ClaimConflict and leaves
\* both records as they were
ClaimAllOrNothing ==
    \A c \in Claimants :
        (claimers[c].pc = "commit" /\ claimers'[c].pc = "done") =>
            \/ /\ claimers'[c].result = "ok"
               /\ pods'[claimers[c].pod].BoundNodeName = claimers[c].node
               /\ nodes'[claimers[c].node].BoundPodName = claimers[c].pod
               /\ pods[claimers[c].pod].BoundNodeName = "" /\ nodes[claimers[c].node].BoundPodName = ""
            \/ /\ claimers'[c].result = "ClaimConflict"
               /\ pods' = pods /\ nodes' = nodes
               /\ pods[claimers[c].pod].Version # claimers[c].podVersion \/ nodes[claimers[c].node].Version # claimers[c].nodeVersion

\* C10: in every state a bound pod's node exists and is bound to that pod,
\* and every claim either sets both bindings or fails with ClaimConflict
\* changing neither record
C10_MutualBinding == [](MutuallyBound) /\ [][ClaimAllOrNothing]_vars

C10_Witness ==
    /\ pods["p1"].BoundNodeName = "n2" /\ nodes["n2"].BoundPodName = "p1"
    /\ pods["p2"].BoundNodeName = "" /\ pods["p2"].Phase = "Waiting"
    /\ claimers["c2"].pc = "done" /\ claimers["c2"].result = "ClaimConflict"
    /\ claimers["c2"].pod = "p2" /\ claimers["c2"].node = "n2"

----------------------------------------------------------------------------
(* The node controller: the phases of a node over its life, with the binder *)

\* most writes of one node record: bounds the Available / Cleaning cycle
MaxNodeWrites == 6
\* consecutive ticks without the instance in the cloud list that force a
\* node to Terminated
AbsentTicks == 2

InitNode ==
    /\ pods = [p \in {"p1"} |-> [Phase |-> "Waiting", BoundNodeName |-> "", Version |-> 0]]
    /\ nodes = [n \in NodeNames |-> [Phase |-> "Creating", BoundPodName |-> "", Version |-> 0]]
    /\ claimers = [c \in {"c1"} |-> IdleClaimer]
    /\ absent = [n \in NodeNames |-> 0]
    /\ FilesIdle
    /\ PackageIdle
    /\ DeployIdle
    /\ ImagesIdle
    /\ TagsIdle
    /\ NetIdle
    /\ CloudInitIdle
    /\ MetaIdle

\* the cloud created the instance
NodeCreated(n) ==
    /\ nodes[n].Phase = "Creating"
    /\ nodes' = [nodes EXCEPT ![n].Phase = "Created", ![n].Version = @ + 1]
    /\ UNCHANGED <<pods, claimers, absent, filesVars, pkgVars, deployVars, imageVars, tagVars, netVars, cloudInitVars, metaVars>>

\* the cloud failed to create the instance
NodeCreateFailed(n) ==
    /\ nodes[n].Phase = "Creating"
    /\ nodes' = [nodes EXCEPT ![n].Phase = "Terminating", ![n].Version = @ + 1]
    /\ UNCHANGED <<pods, claimers, absent, filesVars, pkgVars, deployVars, imageVars, tagVars, netVars, cloudInitVars, metaVars>>

\* the cell agent of the instance answers the health probe
NodeReachable(n) ==
    /\ nodes[n].Phase = "Created"
    /\ nodes' = [nodes EXCEPT ![n].Phase = "Available", ![n].Version = @ + 1]
    /\ UNCHANGED <<pods, claimers, absent, filesVars, pkgVars, deployVars, imageVars, tagVars, netVars, cloudInitVars, metaVars>>

\* the instance did not become reachable
NodeUnreachable(n) ==
    /\ nodes[n].Phase = "Created"
    /\ nodes' = [nodes EXCEPT ![n].Phase = "Cleaning", ![n].Version = @ + 1]
    /\ UNCHANGED <<pods, claimers, absent, filesVars, pkgVars, deployVars, imageVars, tagVars, netVars, cloudInitVars, metaVars>>

\* idle timeout or terminate flag on an available node
NodeRelease(n) ==
    /\ nodes[n].Version < MaxNodeWrites
    /\ nodes[n].Phase = "Available"
    /\ nodes' = [nodes EXCEPT ![n].Phase = "Cleaning", ![n].Version = @ + 1]
    /\ UNCHANGED <<pods, claimers, absent, filesVars, pkgVars, deployVars, imageVars, tagVars, netVars, cloudInitVars, metaVars>>

\* the reset of a cleaning node failed, or the instance is not re-used
NodeCleanFailed(n) ==
    /\ nodes[n].Phase = "Cleaning"
    /\ nodes' = [nodes EXCEPT ![n].Phase = "Terminating", ![n].Version = @ + 1]
    /\ UNCHANGED <<pods, claimers, absent, filesVars, pkgVars, deployVars, imageVars, tagVars, netVars, cloudInitVars, metaVars>>

\* a plausible slip: the stopped node is handed out again
NodeStoppedRevived(n) ==
    /\ nodes[n].Phase = "Terminating"
    /\ nodes' = [nodes EXCEPT ![n].Phase = "Available", ![n].Version = @ + 1]
    /\ UNCHANGED <<pods, claimers, absent, filesVars, pkgVars, deployVars, imageVars, tagVars, netVars, cloudInitVars, metaVars>>

\* the cloud acknowledged the stop request
NodeStopped(n) ==
    /\ nodes[n].Phase = "Terminating"
    /\ nodes' = [nodes EXCEPT ![n].Phase = "Terminated", ![n].Version = @ + 1]
    /\ UNCHANGED <<pods, claimers, absent, filesVars, pkgVars, deployVars, imageVars, tagVars, netVars, cloudInitVars, metaVars>>

\* a plausible slip: the node is sent to Terminating with its pod's name
DispatchFailedKeepsName(p) ==
    /\ pods[p].Phase = "Dispatching"
    /\ pods[p].BoundNodeName # ""
    /\ LET n == pods[p].BoundNodeName IN
       /\ pods' = [pods EXCEPT ![p] = [Phase |-> "Failed", BoundNodeName |-> "", Version |-> @.Version + 1]]
       /\ nodes' = [nodes EXCEPT ![n].Phase = "Terminating", ![n].Version = @ + 1]
    /\ UNCHANGED <<claimers, absent, filesVars, pkgVars, deployVars, imageVars, tagVars, netVars, cloudInitVars, metaVars>>

\* the dispatch of a bound pod failed for good: the pod fails and its node is
\* released to Terminating, in one commit
DispatchFailed(p) ==
    /\ pods[p].Phase = "Dispatching"
    /\ pods[p].BoundNodeName # ""
    /\ LET n == pods[p].BoundNodeName IN
       /\ pods' = [pods EXCEPT ![p] = [Phase |-> "Failed", BoundNodeName |-> "", Version |-> @.Version + 1]]
       /\ nodes' = [nodes EXCEPT ![n] = [Phase |-> "Terminating", BoundPodName |-> "", Version |-> @.Version + 1]]
    /\ UNCHANGED <<claimers, absent, filesVars, pkgVars, deployVars, imageVars, tagVars, netVars, cloudInitVars, metaVars>>

\* Launch returned OK for a dispatching pod
PodLaunched(p) ==
    /\ pods[p].Phase = "Dispatching"
    /\ pods' = [pods EXCEPT ![p].Phase = "Running", ![p].Version = @ + 1]
    /\ UNCHANGED <<nodes, claimers, absent, filesVars, pkgVars, deployVars, imageVars, tagVars, netVars, cloudInitVars, metaVars>>

\* the user deletes a pod that has not finished
PodTerminate(p) ==
    /\ ~IsTerminalPodPhase(pods[p].Phase)
    /\ pods' = [pods EXCEPT ![p].Phase = "Terminated", ![p].Version = @ + 1]
    /\ UNCHANGED <<nodes, claimers, absent, filesVars, pkgVars, deployVars, imageVars, tagVars, netVars, cloudInitVars, metaVars>>

\* the pod record after its node was forced to Terminated: unbound, and
\* queued again unless it has finished
Requeued(podRec) ==
    [Phase |-> IF IsTerminalPodPhase(podRec.Phase) THEN podRec.Phase ELSE "Waiting",
     BoundNodeName |-> "", Version |-> podRec.Version + 1]

\* a tick whose cloud list lacks the instance of node n; at the second such
\* tick in a row the node is forced to Terminated, the pod bound to it being
\* unbound in the same commit
TickAbsent(n) ==
    /\ nodes[n].Phase # "Terminated"
    /\ IF absent[n] + 1 < AbsentTicks
       THEN /\ absent' = [absent EXCEPT ![n] = @ + 1]
            /\ UNCHANGED <<pods, nodes>>
       ELSE /\ absent' = [absent EXCEPT ![n] = 0]
            /\ nodes' = [nodes EXCEPT ![n] = [Phase |-> "Terminated", BoundPodName |-> "", Version |-> @.Version + 1]]
            /\ pods' = [p \in DOMAIN pods |-> IF pods[p].BoundNodeName = n THEN Requeued(pods[p]) ELSE pods[p]]
    /\ UNCHANGED <<claimers, filesVars, pkgVars, deployVars, imageVars, tagVars, netVars, cloudInitVars, metaVars>>

\* a tick whose cloud list has the instance of node n again
TickListed(n) ==
    /\ absent[n] > 0
    /\ absent' = [absent EXCEPT ![n] = 0]
    /\ UNCHANGED <<pods, nodes, claimers, filesVars, pkgVars, deployVars, imageVars, tagVars, netVars, cloudInitVars, metaVars>>

NextNode ==
    \/ \E c \in DOMAIN claimers, p \in DOMAIN pods, n \in DOMAIN nodes : ClaimBegin(c, p, n)
    \/ \E c \in DOMAIN claimers : ClaimReadPod(c)
    \/ \E c \in DOMAIN claimers : ClaimReadNode(c)
    \/ \E c \in DOMAIN claimers : ClaimCommit(c)
    \/ \E c \in DOMAIN claimers : ClaimEnd(c)
    \/ \E p \in DOMAIN pods : PodFinish(p)
    \/ \E p \in DOMAIN pods : Unbind(p)
    \/ \E n \in DOMAIN nodes : NodeReset(n)
    \/ \E n \in DOMAIN nodes : NodeCreated(n)
    \/ \E n \in DOMAIN nodes : NodeCreateFailed(n)
    \/ \E n \in DOMAIN nodes : NodeReachable(n)
    \/ \E n \in DOMAIN nodes : NodeUnreachable(n)
    \/ \E n \in DOMAIN nodes : NodeRelease(n)
    \/ \E n \in DOMAIN nodes : NodeCleanFailed(n)
    \/ \E n \in DOMAIN nodes : NodeStopped(n)
    \/ \E p \in DOMAIN pods : DispatchFailed(p)
    \/ \E p \in DOMAIN pods : PodLaunched(p)
    \/ \E p \in DOMAIN pods : PodTerminate(p)
    \/ \E n \in DOMAIN nodes : TickAbsent(n)
    \/ \E n \in DOMAIN nodes : TickListed(n)

SpecNode == InitNode /\ [][NextNode]_vars

----------------------------------------------------------------------------
(* Properties of the node and pod phases *)

\* the legal successors of each phase
LegalEdges ==
    {<<"Creating", "Created">>, <<"Creating", "Terminating">>,
     <<"Created", "Available">>, <<"Created", "Cleaning">>,
     <<"Available", "Claimed">>, <<"Available", "Cleaning">>,
     <<"Claimed", "Cleaning">>, <<"Claimed", "Terminating">>,
     <<"Cleaning", "Available">>, <<"Cleaning", "Terminating">>,
     <<"Terminating", "Terminated">>}

\* node n changes phase in this step
PhaseChanges(n) == nodes'[n].Phase # nodes[n].Phase

\* this step is the second tick in a row without the instance of node n, and
\* forces n to Terminated
ForcedTermination(n) ==
    /\ absent[n] + 1 = AbsentTicks
    /\ absent'[n] = 0
    /\ nodes'[n].Phase = "Terminated"

\* the claim as stated: every change of a node's phase follows a legal edge,
\* and a Terminated node keeps its phase
C11_AsStated ==
    [][\A n \in DOMAIN nodes :
          /\ PhaseChanges(n) => <<nodes[n].Phase, nodes'[n].Phase>> \in LegalEdges
          /\ nodes[n].Phase = "Terminated" => nodes'[n].Phase = "Terminated"]_vars

\* C11: every change of a node's phase follows a legal edge of the node
\* state machine or is the forced move to Terminated of a node whose
\* instance was missing from the cloud list for two ticks in a row, and a
\* Terminated node keeps its phase
C11_NodePhases ==
    [][\A n \in DOMAIN nodes :
          /\ PhaseChanges(n) => (<<nodes[n].Phase, nodes'[n].Phase>> \in LegalEdges \/ ForcedTermination(n))
          /\ nodes[n].Phase = "Terminated" => nodes'[n].Phase = "Terminated"]_vars

\* n1 went through every phase in turn, n2 was forced from Creating to
\* Terminated
C11_Witness ==
    /\ nodes["n1"].Phase = "Terminated" /\ nodes["n1"].Version = 6
    /\ pods["p1"].Phase = "Succeeded" /\ pods["p1"].BoundNodeName = "" /\ pods["p1"].Version = 3
    /\ nodes["n2"].Phase = "Terminated" /\ nodes["n2"].Version = 1

\* C12: a node is Claimed exactly when its BoundPodName is not empty
C12_ClaimedIffBound ==
    \A n \in DOMAIN nodes : nodes[n].Phase = "Claimed" <=> nodes[n].BoundPodName # ""

\* n1 was claimed by p1 and released by the unbind after p1 succeeded; n2 was
\* claimed by nobody
C12_Witness ==
    /\ nodes["n1"].Phase = "Cleaning" /\ nodes["n1"].BoundPodName = "" /\ nodes["n1"].Version = 4
    /\ pods["p1"].Phase = "Succeeded" /\ pods["p1"].BoundNodeName = "" /\ pods["p1"].Version = 3
    /\ nodes["n2"].Phase = "Creating"

\* IsTerminalPodPhase holds of Succeeded, Failed and Terminated and of no
\* other phase
TerminalExactly ==
    \A ph \in PodPhases : IsTerminalPodPhase(ph) <=> ph \in {"Succeeded", "Failed", "Terminated"}

\* a pod in Succeeded, Failed or Terminated keeps its phase in this step
TerminalStays ==
    \A p \in DOMAIN pods :
        pods[p].Phase \in {"Succeeded", "Failed", "Terminated"} => pods'[p].Phase = pods[p].Phase

\* C13: IsTerminalPodPhase holds exactly of Succeeded, Failed and Terminated,
\* and no step changes the phase of a pod in one of them
C13_TerminalPhases == [](TerminalExactly) /\ [][TerminalStays]_vars

\* p1 failed while bound, was unbound, and its node has been reset since
C13_Witness ==
    /\ pods["p1"].Phase = "Failed" /\ pods["p1"].BoundNodeName = "" /\ pods["p1"].Version = 3
    /\ nodes["n1"].Phase = "Available" /\ nodes["n1"].Version = 5

----------------------------------------------------------------------------
(* BootImageTags and the choice of the boot image                           *)
(*                                                                          *)
(* An image name, and each field of a BootImageTags, is a Go string: here   *)
(* the sequence of its characters, each a one-character TLA+ string. A      *)
(* uint64 is the sequence of its decimal digits without leading zeros (zero *)
(* is << >>), so that values beyond 32 bits keep their magnitude; a         *)
(* time.Time is the day number and the second of the day, counted from the  *)
(* Unix epoch.                                                              *)

\* most candidate images
MaxImages == 2

Digits == <<"0", "1", "2", "3", "4", "5", "6", "7", "8", "9">>
IsDigit(c) == \E d \in 1..10 : Digits[d] = c
DigitValue(c) == (CHOOSE d \in 1..10 : Digits[d] = c) - 1

\* BootImageTags{}
NoTags == [Company |-> << >>, Product |-> << >>, Version |-> << >>, Date |-> << >>, Time |-> << >>]

\* strings.Split(s, "-") from character i on: cur is the segment being read,
\* acc the segments read
RECURSIVE SplitLoop(_, _, _, _)
SplitLoop(s, i, cur, acc) ==
    IF i > Len(s) THEN Append(acc, cur)
    ELSE IF s[i] = "-" THEN SplitLoop(s, i + 1, << >>, Append(acc, cur))
    ELSE SplitLoop(s, i + 1, Append(cur, s[i]), acc)

Split(s) == SplitLoop(s, 1, << >>, << >>)

\* a plausible slip: the fields the name has no segment for are emptied
SetResets(b, s) ==
    LET segs == Split(s) IN
    [Company |-> IF Len(segs) > 0 THEN segs[1] ELSE << >>,
     Product |-> IF Len(segs) > 1 THEN segs[2] ELSE << >>,
     Version |-> IF Len(segs) > 2 THEN segs[3] ELSE << >>,
     Date |-> IF Len(segs) > 3 THEN segs[4] ELSE << >>,
     Time |-> IF Len(segs) > 4 THEN segs[5] ELSE << >>]

\* bit.Set(s), b being the receiver before the call
Set(b, s) ==
    LET segs == Split(s) IN
    [Company |-> IF Len(segs) > 0 THEN segs[1] ELSE b.Company,
     Product |-> IF Len(segs) > 1 THEN segs[2] ELSE b.Product,
     Version |-> IF Len(segs) > 2 THEN segs[3] ELSE b.Version,
     Date |-> IF Len(segs) > 3 THEN segs[4] ELSE b.Date,
     Time |-> IF Len(segs) > 4 THEN segs[5] ELSE b.Time]

\* fmt.Sprintf("%s-%s-%s-%s-%s", bit.Company, bit.Product, bit.Version, bit.Date, bit.Time)
String(b) ==
    b.Company \o <<"-">> \o b.Product \o <<"-">> \o b.Version \o <<"-">> \o b.Date \o <<"-">> \o b.Time

\* a plausible slip: the check of Time is missing
MatchesNoTime(b, input) ==
    /\ ~(input.Company # << >> /\ b.Company # input.Company)
    /\ ~(input.Product # << >> /\ b.Product # input.Product)
    /\ ~(input.Version # << >> /\ b.Version # input.Version)
    /\ ~(input.Date # << >> /\ b.Date # input.Date)

\* bit.Matches(input)
Matches(b, input) ==
    IF input.Company # << >> /\ b.Company # input.Company THEN FALSE
    ELSE IF input.Product # << >> /\ b.Product # input.Product THEN FALSE
    ELSE IF input.Version # << >> /\ b.Version # input.Version THEN FALSE
    ELSE IF input.Date # << >> /\ b.Date # input.Date THEN FALSE
    ELSE IF input.Time # << >> /\ b.Time # input.Time THEN FALSE
    ELSE TRUE

\* the digits of a numeral without its leading zeros
RECURSIVE StripZeros(_)
StripZeros(ds) == IF ds # << >> /\ ds[1] = 0 THEN StripZeros(Tail(ds)) ELSE ds

\* a < b for two numbers given by their digits
RECURSIVE DigitsLess(_, _)
DigitsLess(a, b) ==
    IF Len(a) # Len(b) THEN Len(a) < Len(b)
    ELSE IF a = << >> THEN FALSE
    ELSE IF a[1] # b[1] THEN a[1] < b[1]
    ELSE DigitsLess(Tail(a), Tail(b))

\* 1<<32 - 1
MaxUint32 == <<4, 2, 9, 4, 9, 6, 7, 2, 9, 5>>

\* strconv.ParseUint(s, 10, 32): the value and the error; a syntax error
\* comes with 0, a range error with the largest 32-bit value
ParseUint(s) ==
    IF s = << >> \/ \E i \in 1..Len(s) : ~IsDigit(s[i])
    THEN [val |-> << >>, err |-> "syntax"]
    ELSE LET n == StripZeros([i \in 1..Len(s) |-> DigitValue(s[i])]) IN
         IF DigitsLess(MaxUint32, n)
         THEN [val |-> MaxUint32, err |-> "range"]
         ELSE [val |-> n, err |-> "none"]

\* time.Unix(0, 0)
EpochZero == [day |-> 0, sec |-> 0]

\* time.Parse("20060102 150405", s): four digits of year, two of month, two
\* of day, a space, two digits each of hour, minute and second, every field
\* in its range and nothing after; the time is UTC
ParseTime(s) ==
    IF Len(s) # 15 \/ s[9] # " " \/ \E i \in (1..15) \ {9} : ~IsDigit(s[i])
    THEN [ok |-> FALSE]
    ELSE LET num2(i) == 10 * DigitValue(s[i]) + DigitValue(s[i + 1])
             y == 100 * num2(1) + num2(3)
             m == num2(5)
             d == num2(7)
             hh == num2(10)
             mm == num2(12)
             ss == num2(14)
             leap == y % 4 = 0 /\ (y % 100 # 0 \/ y % 400 = 0)
             daysIn == IF m = 2 THEN (IF leap THEN 29 ELSE 28) ELSE IF m \in {4, 6, 9, 11} THEN 30 ELSE 31
             daysBefore == <<0, 31, 59, 90, 120, 151, 181, 212, 243, 273, 304, 334>>
             \* days from 0000-01-01 to the first day of year yy
             beforeYear(yy) == 365 * yy + (IF yy = 0 THEN 0 ELSE (yy - 1) \div 4 - (yy - 1) \div 100 + (yy - 1) \div 400 + 1) IN
         IF m \notin 1..12 \/ d < 1 \/ d > daysIn \/ hh > 23 \/ mm > 59 \/ ss > 59
         THEN [ok |-> FALSE]
         ELSE [ok |-> TRUE,
               time |-> [day |-> beforeYear(y) + daysBefore[m] + (IF leap /\ m > 2 THEN 1 ELSE 0) + (d - 1) - beforeYear(1970),
                         sec |-> 3600 * hh + 60 * mm + ss]]

\* bit.Timestamp()
Timestamp(b) == ParseTime(b.Date \o <<" ">> \o b.Time)

\* t.Before(u)
Before(t, u) == t.day < u.day \/ (t.day = u.day /\ t.sec < u.sec)

\* what the less function of SortImages computes of one image: the version
\* ParseUint returned, its error ignored, and the timestamp, or epoch zero
\* when there is none
SortKey(img) ==
    LET b == Set(NoTags, img.Name)
        ts == Timestamp(b) IN
    [version |-> ParseUint(b.Version).val, date |-> IF ts.ok THEN ts.time ELSE EpochZero]

\* the less function of SortImages, on what it computed of its two images
Less(i, j) ==
    IF i.version # j.version THEN DigitsLess(i.version, j.version)
    ELSE Before(i.date, j.date)

\* what less computes of each image of the slice
RECURSIVE SortKeys(_)
SortKeys(imgs) == IF imgs = << >> THEN << >> ELSE <<SortKey(Head(imgs))>> \o SortKeys(Tail(imgs))

\* sort.Slice(images, less) is not stable: the slice ends as any arrangement
\* of its elements that less has in order
SortImages(imgs) ==
    LET keys == SortKeys(imgs)
        ordered == {q \in Orders(1..Len(imgs)) : \A x, y \in 1..Len(imgs) : x < y => ~Less(keys[q[y]], keys[q[x]])} IN
    {[k \in 1..Len(imgs) |-> imgs[o[k]]] : o \in ordered}

\* FilterImages(images, tags) from image i on
RECURSIVE FilterLoop(_, _, _, _)
FilterLoop(imgs, input, i, result) ==
    IF i > Len(imgs) THEN result
    ELSE IF Matches(Set(NoTags, imgs[i].Name), input)
    THEN FilterLoop(imgs, input, i + 1, Append(result, imgs[i]))
    ELSE FilterLoop(imgs, input, i + 1, result)

FilterImages(imgs, input) == FilterLoop(imgs, input, 1, << >>)

\* a plausible slip: the candidates are sorted without being filtered
GetBestImageUnfiltered(imgs, input) ==
    {IF Len(s) = 0 THEN [called |-> TRUE, id |-> "", err |-> TRUE, images |-> imgs]
     ELSE [called |-> TRUE, id |-> s[Len(s)].Id, err |-> FALSE, images |-> imgs] : s \in SortImages(imgs)}

\* a plausible slip: the caller's slice is sorted, and then filtered
GetBestImageSortsCaller(imgs, input) ==
    {IF Len(FilterImages(s, input)) = 0 THEN [called |-> TRUE, id |-> "", err |-> TRUE, images |-> s]
     ELSE [called |-> TRUE, id |-> FilterImages(s, input)[Len(FilterImages(s, input))].Id, err |-> FALSE, images |-> s] : s \in SortImages(imgs)}

\* GetBestImage(images, tags): what it may return, one result per way
\* SortImages may leave the slice. FilterImages gives a slice of its own
\* and it is this slice that is sorted: images is the caller's slice after
\* the call
GetBestImage(imgs, input) ==
    {IF Len(s) = 0 THEN [called |-> TRUE, id |-> "", err |-> TRUE, images |-> imgs]
     ELSE [called |-> TRUE, id |-> s[Len(s)].Id, err |-> FALSE, images |-> imgs] : s \in SortImages(FilterImages(imgs, input))}

\* the segments joined by "-"
RECURSIVE JoinDash(_)
JoinDash(segs) ==
    IF Len(segs) = 0 THEN << >>
    ELSE IF Len(segs) = 1 THEN segs[1]
    ELSE segs[1] \o <<"-">> \o JoinDash(Tail(segs))

\* the image names of the candidates: the three of the image selection
\* scenario, then a version beyond 32 bits, a name of four segments with a
\* version that is no numeral, an empty version with a date that is none, a
\* name of six segments, and the empty name
ImageNames ==
    LET k == <<"k">>
        i == <<"i">>
        x == <<"x">>
        jan24 == <<"2", "0", "2", "4", "0", "1", "0", "1">>
        jan23 == <<"2", "0", "2", "3", "0", "1", "0", "1">>
        jun24 == <<"2", "0", "2", "4", "0", "6", "0", "1">>
        nodate == <<"2", "0", "2", "4", "1", "3", "0", "1">>
        one == <<"0", "1", "0", "0", "0", "0">>
        big == <<"4", "2", "9", "4", "9", "6", "7", "2", "9", "6">> IN
    {JoinDash(<<k, i, <<"1">>, jan24, one>>),
     JoinDash(<<k, i, <<"2">>, jan23, one>>),
     JoinDash(<<k, i, <<"2">>, jun24, one>>),
     JoinDash(<<k, i, big, jan23, one>>),
     JoinDash(<<k, i, <<"v">>, jan24>>),
     JoinDash(<<k, x, << >>, nodate, one>>),
     JoinDash(<<k, i, <<"2">>, jun24, one, <<"b">>>>),
     << >>}

\* the tags requested: none, a product, a version, a company and a time, a
\* product no image has, a date
RequestTags ==
    {NoTags,
     [NoTags EXCEPT !.Product = <<"i">>],
     [NoTags EXCEPT !.Version = <<"2">>],
     [NoTags EXCEPT !.Company = <<"k">>, !.Time = <<"0", "1", "0", "0", "0", "0">>],
     [NoTags EXCEPT !.Product = <<"z">>],
     [NoTags EXCEPT !.Date = <<"2", "0", "2", "4", "0", "1", "0", "1">>]}

\* the candidate lists: the i-th image has the i-th id
ImageLists ==
    LET ids == <<"i1", "i2", "i3", "i4", "i5">> IN
    UNION {{[i \in 1..n |-> [Id |-> ids[i], Name |-> names[i]]] : names \in [1..n -> ImageNames]} : n \in 0..MaxImages}

InitImages ==
    /\ images \in ImageLists
    /\ tags \in RequestTags
    /\ filtered = NotCalled
    /\ sorted = NotCalled
    /\ best = NotCalled
    /\ FilesIdle
    /\ PackageIdle
    /\ DeployIdle
    /\ BindIdle
    /\ TagsIdle
    /\ NetIdle
    /\ CloudInitIdle
    /\ MetaIdle

CallFilterImages ==
    /\ filtered' = [called |-> TRUE, images |-> FilterImages(images, tags)]
    /\ UNCHANGED <<images, tags, sorted, best, filesVars, pkgVars, deployVars, bindVars, tagVars, netVars, cloudInitVars, metaVars>>

CallSortImages ==
    /\ \E s \in SortImages(images) : sorted' = [called |-> TRUE, images |-> s]
    /\ UNCHANGED <<images, tags, filtered, best, filesVars, pkgVars, deployVars, bindVars, tagVars, netVars, cloudInitVars, metaVars>>

CallGetBestImage ==
    /\ \E r \in GetBestImage(images, tags) : best' = r /\ images' = r.images
    /\ UNCHANGED <<tags, filtered, sorted, filesVars, pkgVars, deployVars, bindVars, tagVars, netVars, cloudInitVars, metaVars>>

NextImages == CallFilterImages \/ CallSortImages \/ CallGetBestImage

SpecImages == InitImages /\ [][NextImages]_vars

----------------------------------------------------------------------------
(* Properties of the image selection *)

FieldNames == <<"Company", "Product", "Version", "Date", "Time">>

\* the places of the "-" in a name
DashAt(nm) == {i \in 1..Len(nm) : nm[i] = "-"}

\* the place of the k-th "-" of a name
NthDash(nm, k) == CHOOSE i \in DashAt(nm) : Cardinality({j \in DashAt(nm) : j <= i}) = k

\* the k-th field of a name: what stands between its (k-1)-th and its k-th
\* "-", the empty string when the name has fewer fields
FieldOf(nm, k) ==
    LET n == Cardinality(DashAt(nm)) + 1 IN
    IF k > n THEN << >>
    ELSE SubSeq(nm, IF k = 1 THEN 1 ELSE NthDash(nm, k - 1) + 1, IF k = n THEN Len(nm) ELSE NthDash(nm, k) - 1)

\* every field the request sets is the field of the image's name
ImageMatches(img, req) ==
    \A k \in 1..5 : req[FieldNames[k]] # << >> => req[FieldNames[k]] = FieldOf(img.Name, k)

\* the version of an image as the ordering is stated to take it: the number
\* its version field writes in decimal, and 0 when the field is empty, is no
\* numeral or does not fit 32 bits
StatedVersion(img) ==
    LET f == FieldOf(img.Name, 3) IN
    IF f = << >> \/ \E i \in 1..Len(f) : ~IsDigit(f[i]) THEN << >>
    ELSE LET n == StripZeros([i \in 1..Len(f) |-> DigitValue(f[i])]) IN
         IF DigitsLess(MaxUint32, n) THEN << >> ELSE n

\* the timestamp of an image as stated: its date and time read as
\* YYYYMMDD HHMMSS, and epoch zero when they do not read so
StatedTime(img) ==
    LET ts == ParseTime(FieldOf(img.Name, 4) \o <<" ">> \o FieldOf(img.Name, 5)) IN
    IF ts.ok THEN ts.time ELSE EpochZero

\* image a is older than image b by the stated (version, timestamp) pairs
StatedOlder(a, b) ==
    \/ DigitsLess(StatedVersion(a), StatedVersion(b))
    \/ StatedVersion(a) = StatedVersion(b) /\ Before(StatedTime(a), StatedTime(b))

\* C15, as stated: the id GetBestImage returns is that of a matching
\* candidate than which no matching candidate is newer by (version,
\* timestamp), the version compared first
C15_AsStated ==
    (best.called /\ ~best.err) =>
        \E i \in 1..Len(images) :
            /\ images[i].Id = best.id
            /\ ImageMatches(images[i], tags)
            /\ \A j \in 1..Len(images) : ImageMatches(images[j], tags) => ~StatedOlder(images[i], images[j])

\* C16: FilterImages returns the images that match the request, every field
\* the request sets being the image's, in the order they came in; a request
\* that sets no field keeps them all
C16_FilterMatches ==
    filtered.called =>
        /\ filtered.images = SelectSeq(images, LAMBDA img : ImageMatches(img, tags))
        /\ tags = NoTags => filtered.images = images

\* a request of a company and a time: the name of four fields has no time
\* and is dropped, the one after it is kept
C16_Witness ==
    /\ filtered.called
    /\ tags.Time # << >> /\ tags.Company # << >>
    /\ Len(images) = 2
    /\ FieldOf(images[1].Name, 4) # << >> /\ FieldOf(images[1].Name, 5) = << >>
    /\ filtered.images = <<images[2]>>

\* C17, as stated: SortImages leaves the images in the order of their
\* stated versions and timestamps, a version that does not parse counting
\* as 0 and a timestamp that does not parse as epoch zero
C17_AsStated ==
    sorted.called =>
        \A x, y \in 1..Len(sorted.images) : x < y => ~StatedOlder(sorted.images[y], sorted.images[x])

\* C18: GetBestImage returns an error, and the empty id, exactly when no
\* candidate matches the request, and the id of a candidate otherwise
C18_NoImageError ==
    best.called =>
        LET none == \A i \in 1..Len(images) : ~ImageMatches(images[i], tags) IN
        /\ best.err <=> none
        /\ best.err => best.id = ""
        /\ ~best.err => \E i \in 1..Len(images) : images[i].Id = best.id

\* two candidates, none of the product asked for
C18_Witness ==
    /\ best.called /\ best.err /\ best.id = ""
    /\ Len(images) = 2
    /\ tags.Product # << >>
    /\ \A i \in 1..2 : FieldOf(images[i].Name, 2) # << >> /\ FieldOf(images[i].Name, 2) # tags.Product

----------------------------------------------------------------------------
(* BootImageTags.Set and BootImageTags.String on their own *)

\* the values of a field of the receiver: empty, a letter, and a value with
\* a "-" in it
TagFields == {<< >>, <<"k">>, <<"a", "-", "b">>}

\* the names given to Set: the image names, and names of one, two and three
\* segments, the last two of these with empty segments
TagNames == ImageNames \cup {<<"k">>, <<"k", "-", "i">>, <<"-">>, <<"x", "-", "-", "y">>}

InitTags ==
    /\ bit \in [Company : TagFields, Product : TagFields, Version : TagFields, Date : TagFields, Time : TagFields]
    /\ setName \in TagNames
    /\ setRes = NotCalled
    /\ strRes = NotCalled
    /\ rtRes = NotCalled
    /\ FilesIdle
    /\ PackageIdle
    /\ DeployIdle
    /\ BindIdle
    /\ ImagesIdle
    /\ NetIdle
    /\ CloudInitIdle
    /\ MetaIdle

\* bit.Set(setName): bit is the receiver before the call, setRes.val the
\* receiver after it
CallSet ==
    /\ setRes' = [called |-> TRUE, val |-> Set(bit, setName)]
    /\ UNCHANGED <<bit, setName, strRes, rtRes, filesVars, pkgVars, deployVars, bindVars, imageVars, netVars, cloudInitVars, metaVars>>

\* bit.String()
CallString ==
    /\ strRes' = [called |-> TRUE, val |-> String(bit)]
    /\ UNCHANGED <<bit, setName, setRes, rtRes, filesVars, pkgVars, deployVars, bindVars, imageVars, netVars, cloudInitVars, metaVars>>

\* Set of the string String returned, on a fresh BootImageTags
CallRoundTrip ==
    /\ strRes.called
    /\ rtRes' = [called |-> TRUE, val |-> Set(NoTags, strRes.val)]
    /\ UNCHANGED <<bit, setName, setRes, strRes, filesVars, pkgVars, deployVars, bindVars, imageVars, netVars, cloudInitVars, metaVars>>

NextTags == CallSet \/ CallString \/ CallRoundTrip

SpecTags == InitTags /\ [][NextTags]_vars

----------------------------------------------------------------------------
(* Properties of Set and String *)

\* C19, as stated: when the five fields of a BootImageTags are all
\* non-empty, Set of its String on a fresh BootImageTags gives its fields
\* back
C19_AsStated ==
    (rtRes.called /\ \A k \in 1..5 : bit[FieldNames[k]] # << >>) => rtRes.val = bit

\* C20: after Set of a name of n segments, the first min(n, 5) fields are
\* the first segments of the name, in the order company, product, version,
\* date, time, and the other fields are what they were before; the segments
\* after the fifth are in no field
C20_SetSegments ==
    setRes.called =>
        LET n == Cardinality(DashAt(setName)) + 1 IN
        \A k \in 1..5 :
            setRes.val[FieldNames[k]] = IF k <= n THEN FieldOf(setName, k) ELSE bit[FieldNames[k]]

\* a name of three segments on a receiver with a date and a time: company,
\* product and version are the name's, date and time are kept
C20_Witness ==
    /\ setRes.called
    /\ Cardinality(DashAt(setName)) = 2
    /\ bit.Date # << >> /\ bit.Time # << >>
    /\ setRes.val.Date = bit.Date /\ setRes.val.Time = bit.Time
    /\ setRes.val.Company = FieldOf(setName, 1) /\ setRes.val.Company # bit.Company
    /\ setRes.val.Version = FieldOf(setName, 3) /\ setRes.val.Version # bit.Version

----------------------------------------------------------------------------
(* createResolvconf, deployResolvconf, deployNetworkAgentToken *)

\* longest list of servers, of searches and of options of a DNSConfig
MaxDnsEntries == 2

\* the reserved volume name of the resolv.conf package
resolvconfVolumeName == "resolvconf"

\* strings.Join(elems, sep)
RECURSIVE StringsJoin(_, _)
StringsJoin(elems, sep) ==
    IF Len(elems) = 0 THEN << >>
    ELSE IF Len(elems) = 1 THEN elems[1]
    ELSE elems[1] \o sep \o StringsJoin(Tail(elems), sep)

\* for _, srv := range dnsconf.Servers { buf.WriteString(fmt.Sprintf("nameserver %s\n", srv)) }
RECURSIVE WriteServers(_, _, _)
WriteServers(servers, i, buf) ==
    IF i > Len(servers) THEN buf
    ELSE WriteServers(servers, i + 1, buf \o <<"n", "a", "m", "e", "s", "e", "r", "v", "e", "r", " ">> \o servers[i] \o <<"\n">>)

\* a plausible slip: the search line is written whether there are searches or not
createResolvconfAlwaysSearch(conf) ==
    LET buf1 == WriteServers(conf.Servers, 1, << >>)
        search == StringsJoin(conf.Searches, <<" ">>)
        buf2 == buf1 \o <<"s", "e", "a", "r", "c", "h", " ">> \o search \o <<"\n">>
        options == StringsJoin(conf.Options, <<" ">>)
        buf3 == IF Len(conf.Options) > 0
                THEN buf2 \o <<"o", "p", "t", "i", "o", "n", "s", " ">> \o options \o <<"\n">>
                ELSE buf2 IN
    [called |-> TRUE, ok |-> TRUE, data |-> buf3]

\* createResolvconf(podName, dnsconf): a write to a bytes.Buffer returns no
\* error, so the error returns are not taken
createResolvconf(conf) ==
    LET buf1 == WriteServers(conf.Servers, 1, << >>)
        search == StringsJoin(conf.Searches, <<" ">>)
        buf2 == IF Len(conf.Searches) > 0
                THEN buf1 \o <<"s", "e", "a", "r", "c", "h", " ">> \o search \o <<"\n">>
                ELSE buf1
        options == StringsJoin(conf.Options, <<" ">>)
        buf3 == IF Len(conf.Options) > 0
                THEN buf2 \o <<"o", "p", "t", "i", "o", "n", "s", " ">> \o options \o <<"\n">>
                ELSE buf2 IN
    [called |-> TRUE, ok |-> TRUE, data |-> buf3]

\* client.Deploy(pod.Name, volume, bufio.NewReader(payload)) as the call
\* made: the pod, the volume name, the map packaged and the entries of the
\* package
DeployCall(podName, volName, packageFiles) ==
    [pod |-> podName, vol |-> volName, package |-> packageFiles,
     entries |-> makeDeployPackage(packageFiles, CHOOSE o \in Orders(DOMAIN packageFiles) : TRUE).entries]

\* how a call returned: the faults met on the way, whether an error was
\* returned, the Deploy calls made
Returned(faults, failed, deployCalls) ==
    [called |-> TRUE, faults |-> faults, err |-> failed, calls |-> deployCalls]

\* a plausible slip: the error of GetPodDNS is dropped and an empty
\* resolv.conf deployed
deployResolvconfDropsDnsError(podName, configurer, faults) ==
    IF configurer = None THEN Returned(faults, TRUE, << >>)
    ELSE IF faults.convert THEN Returned(faults, TRUE, << >>)
    ELSE LET conf == IF faults.dns THEN [Servers |-> << >>, Searches |-> << >>, Options |-> << >>] ELSE configurer.val
             rendered == createResolvconf(conf)
             packageFiles == [path \in {<<"", "etc", "resolv.conf">>} |-> [data |-> rendered.data, mode |-> 420]] IN
         Returned(faults, faults.deploy, <<DeployCall(podName, resolvconfVolumeName, packageFiles)>>)

\* deployResolvconf(pod, node, dnsConfigurer, nodeClientFactory); faults says
\* which of milpaToK8sPod, GetPodDNS and client.Deploy return an error when
\* they are called
deployResolvconf(podName, configurer, faults) ==
    IF configurer = None THEN Returned(faults, TRUE, << >>)
    ELSE IF faults.convert THEN Returned(faults, TRUE, << >>)
    ELSE IF faults.dns THEN Returned(faults, TRUE, << >>)
    ELSE LET rendered == createResolvconf(configurer.val) IN
         IF ~rendered.ok THEN Returned(faults, TRUE, << >>)
         ELSE LET packageFiles == [path \in {<<"", "etc", "resolv.conf">>} |-> [data |-> rendered.data, mode |-> 420]] IN
              Returned(faults, faults.deploy, <<DeployCall(podName, resolvconfVolumeName, packageFiles)>>)

\* a plausible slip: the kubeconfig is deployed with the default file mode
deployNetworkAgentTokenDefaultMode(podName, config, faults) ==
    IF config = None THEN Returned(faults, FALSE, << >>)
    ELSE IF faults.write THEN Returned(faults, TRUE, << >>)
    ELSE LET packageFiles == [path \in {<<"kubeconfig", "kubeconfig">>} |-> [data |-> config.val, mode |-> defaultVolumeFileMode]] IN
         Returned(faults, faults.deploy, <<DeployCall(podName, "kubeconfig", packageFiles)>>)

\* deployNetworkAgentToken(cfg, pod, node, nodeClientFactory); faults says
\* which of clientcmd.Write and client.Deploy return an error when they are
\* called; config.val is what clientcmd.Write serializes the config to
deployNetworkAgentToken(podName, config, faults) ==
    IF config = None THEN Returned(faults, FALSE, << >>)
    ELSE IF faults.write THEN Returned(faults, TRUE, << >>)
    ELSE LET packageFiles == [path \in {<<"kubeconfig", "kubeconfig">>} |-> [data |-> config.val, mode |-> 384]] IN
         Returned(faults, faults.deploy, <<DeployCall(podName, "kubeconfig", packageFiles)>>)

\* the DNS configurations: up to MaxDnsEntries servers, searches and options
DNSConfigs ==
    [Servers : SeqUpTo({<<"8">>, <<"9", ".", "9">>}, MaxDnsEntries),
     Searches : SeqUpTo({<<"c">>, <<"a", ".", "b">>}, MaxDnsEntries),
     Options : SeqUpTo({<<"n", ":", "5">>}, MaxDnsEntries)]

InitNet ==
    /\ dnsconf \in DNSConfigs
    /\ dnsConfigurer \in {None, Some(dnsconf)}
    /\ cfg \in {None, Some(<<"k", "1">>), Some(<< >>)}
    /\ resolvRes = NotCalled
    /\ rcRes = NotCalled
    /\ tokRes = NotCalled
    /\ FilesIdle
    /\ PackageIdle
    /\ DeployIdle
    /\ BindIdle
    /\ ImagesIdle
    /\ TagsIdle
    /\ CloudInitIdle
    /\ MetaIdle

CallCreateResolvconf ==
    /\ resolvRes' = createResolvconf(dnsconf)
    /\ UNCHANGED <<dnsconf, dnsConfigurer, cfg, rcRes, tokRes, filesVars, pkgVars, deployVars, bindVars, imageVars, tagVars, cloudInitVars, metaVars>>

CallDeployResolvconf ==
    /\ \E faults \in [convert : BOOLEAN, dns : BOOLEAN, deploy : BOOLEAN] :
           rcRes' = deployResolvconf("p", dnsConfigurer, faults)
    /\ UNCHANGED <<dnsconf, dnsConfigurer, cfg, resolvRes, tokRes, filesVars, pkgVars, deployVars, bindVars, imageVars, tagVars, cloudInitVars, metaVars>>

CallDeployNetworkAgentToken ==
    /\ \E faults \in [write : BOOLEAN, deploy : BOOLEAN] :
           tokRes' = deployNetworkAgentToken("p", cfg, faults)
    /\ UNCHANGED <<dnsconf, dnsConfigurer, cfg, resolvRes, rcRes, filesVars, pkgVars, deployVars, bindVars, imageVars, tagVars, cloudInitVars, metaVars>>

NextNet == CallCreateResolvconf \/ CallDeployResolvconf \/ CallDeployNetworkAgentToken

SpecNet == InitNet /\ [][NextNet]_vars

----------------------------------------------------------------------------
(* Properties of the resolv.conf and kubeconfig deployment *)

\* the pieces of s between the occurrences of the character sep
RECURSIVE Pieces(_, _, _, _, _)
Pieces(s, sep, i, cur, acc) ==
    IF i > Len(s) THEN Append(acc, cur)
    ELSE IF s[i] = sep THEN Pieces(s, sep, i + 1, << >>, Append(acc, cur))
    ELSE Pieces(s, sep, i + 1, Append(cur, s[i]), acc)

\* C21: createResolvconf succeeds, and its lines, each ended by "\n", are:
\* "nameserver <ip>" per server in list order, then "search" and the
\* searches, a single space before each, if there is a search, then
\* "options" and the options likewise if there is an option; with none of
\* them the content is empty
C21_Resolvconf ==
    resolvRes.called =>
        LET lines == Pieces(resolvRes.data, "\n", 1, << >>, << >>)
            ns == Len(dnsconf.Servers)
            hs == IF Len(dnsconf.Searches) > 0 THEN 1 ELSE 0
            ho == IF Len(dnsconf.Options) > 0 THEN 1 ELSE 0 IN
        /\ resolvRes.ok
        /\ Len(lines) = ns + hs + ho + 1
        /\ lines[Len(lines)] = << >>
        /\ \A i \in 1..ns :
               Pieces(lines[i], " ", 1, << >>, << >>) = <<<<"n", "a", "m", "e", "s", "e", "r", "v", "e", "r">>, dnsconf.Servers[i]>>
        /\ hs = 1 => Pieces(lines[ns + 1], " ", 1, << >>, << >>) = <<<<"s", "e", "a", "r", "c", "h">>>> \o dnsconf.Searches
        /\ ho = 1 => Pieces(lines[ns + hs + 1], " ", 1, << >>, << >>) = <<<<"o", "p", "t", "i", "o", "n", "s">>>> \o dnsconf.Options
        /\ ns + hs + ho = 0 => resolvRes.data = << >>

\* two servers, no search, two options: three lines, the last the options
C21_Witness ==
    /\ resolvRes.called
    /\ Len(dnsconf.Servers) = 2 /\ dnsconf.Servers[1] # dnsconf.Servers[2]
    /\ dnsconf.Searches = << >>
    /\ Len(dnsconf.Options) = 2
    /\ Len(Pieces(resolvRes.data, "\n", 1, << >>, << >>)) = 4

\* C22: when deployResolvconf returns no error it has made one Deploy call,
\* for the pod, under the volume name resolvconf, of a package of the one
\* file /etc/resolv.conf, mode 0644, whose bytes are the resolv.conf of the
\* pod's DNS configuration; with no DNS configurer, or when the conversion
\* of the pod or GetPodDNS fails, it returns an error and has made no
\* Deploy call
C22_DeployResolvconf ==
    rcRes.called =>
        /\ ~rcRes.err =>
              /\ Len(rcRes.calls) = 1
              /\ rcRes.calls[1].pod = "p"
              /\ rcRes.calls[1].vol = "resolvconf"
              /\ DOMAIN rcRes.calls[1].package = {<<"", "etc", "resolv.conf">>}
              /\ rcRes.calls[1].package[<<"", "etc", "resolv.conf">>] = [data |-> createResolvconf(dnsconf).data, mode |-> 420]
              /\ Len(rcRes.calls[1].entries) = 1
              /\ rcRes.calls[1].entries[1].hdr.Mode = 420
              /\ rcRes.calls[1].entries[1].data = createResolvconf(dnsconf).data
        /\ (dnsConfigurer = None \/ rcRes.faults.convert \/ rcRes.faults.dns) => (rcRes.err /\ rcRes.calls = << >>)

\* a configurer whose GetPodDNS fails: an error and no Deploy call, although
\* the Deploy call would have succeeded
C22_Witness ==
    /\ rcRes.called
    /\ dnsConfigurer # None
    /\ ~rcRes.faults.convert /\ rcRes.faults.dns /\ ~rcRes.faults.deploy
    /\ rcRes.err /\ rcRes.calls = << >>
    /\ dnsconf.Servers # << >>

\* C23, as stated: with no kubeconfig deployNetworkAgentToken returns
\* success and makes no Deploy call; with one it makes exactly one Deploy
\* call, under the volume name kubeconfig, of a package of the one file
\* kubeconfig/kubeconfig with mode 0600
C23_AsStated ==
    tokRes.called =>
        /\ cfg = None => (~tokRes.err /\ tokRes.calls = << >>)
        /\ cfg # None =>
              /\ Len(tokRes.calls) = 1
              /\ tokRes.calls[1].vol = "kubeconfig"
              /\ DOMAIN tokRes.calls[1].package = {<<"kubeconfig", "kubeconfig">>}
              /\ tokRes.calls[1].package[<<"kubeconfig", "kubeconfig">>].mode = 384

\* C23: with no kubeconfig deployNetworkAgentToken returns success and makes
\* no Deploy call; with one that cannot be serialized it returns an error
\* and makes no Deploy call; with one that can it makes exactly one Deploy
\* call, under the volume name kubeconfig, of a package of the one file
\* kubeconfig/kubeconfig with mode 0600 and the serialized kubeconfig
C23_NetworkAgentToken ==
    tokRes.called =>
        /\ cfg = None => (~tokRes.err /\ tokRes.calls = << >>)
        /\ (cfg # None /\ tokRes.faults.write) => (tokRes.err /\ tokRes.calls = << >>)
        /\ (cfg # None /\ ~tokRes.faults.write) =>
              /\ Len(tokRes.calls) = 1
              /\ tokRes.calls[1].pod = "p"
              /\ tokRes.calls[1].vol = "kubeconfig"
              /\ DOMAIN tokRes.calls[1].package = {<<"kubeconfig", "kubeconfig">>}
              /\ tokRes.calls[1].package[<<"kubeconfig", "kubeconfig">>] = [data |-> cfg.val, mode |-> 384]
              /\ Len(tokRes.calls[1].entries) = 1
              /\ tokRes.calls[1].entries[1].hdr.Mode = 384
              /\ tokRes.err = tokRes.faults.deploy

\* a kubeconfig that is serialized and deployed
C23_Witness ==
    /\ tokRes.called /\ ~tokRes.err
    /\ cfg # None /\ cfg.val # << >>
    /\ Len(tokRes.calls) = 1
    /\ tokRes.calls[1].entries[1].hdr.Name = <<"ROOTFS", "kubeconfig", "kubeconfig">>

----------------------------------------------------------------------------
(* cloudinitfile.File: the user's cloud config and the files kip adds *)

ItzoVersionPath == "/tmp/itzo/itzo_version"
ItzoURLPath == "/tmp/itzo/itzo_url"
CellConfigPath == "/tmp/itzo/cell_config.yaml"

\* []byte("#cloud-config\n")
cloudInitHeader == <<"#", "c", "l", "o", "u", "d", "-", "c", "o", "n", "f", "i", "g", "\n">>

maxCloudInitSize == 16000

\* semverRegex.MatchString(v): an optional "v", two or three numbers with
\* "." between them, then an optional "-" and prerelease identifiers, then
\* an optional "+" and build identifiers; identifiers are non-empty runs of
\* letters, digits and "-" with "." between them
SemverMatch(v) ==
    LET letters == {"a", "b", "c", "d", "e", "f", "g", "h", "i", "j", "k", "l", "m",
                    "n", "o", "p", "q", "r", "s", "t", "u", "v", "w", "x", "y", "z",
                    "A", "B", "C", "D", "E", "F", "G", "H", "I", "J", "K", "L", "M",
                    "N", "O", "P", "Q", "R", "S", "T", "U", "V", "W", "X", "Y", "Z"}
        s == IF Len(v) > 0 /\ v[1] = "v" THEN Tail(v) ELSE v
        first(S) == CHOOSE i \in S : \A j \in S : i <= j
        plusAt == {i \in 1..Len(s) : s[i] = "+"}
        beforePlus == IF plusAt = {} THEN s ELSE SubSeq(s, 1, first(plusAt) - 1)
        build == IF plusAt = {} THEN None ELSE Some(SubSeq(s, first(plusAt) + 1, Len(s)))
        dashAt == {i \in 1..Len(beforePlus) : beforePlus[i] = "-"}
        core == IF dashAt = {} THEN beforePlus ELSE SubSeq(beforePlus, 1, first(dashAt) - 1)
        pre == IF dashAt = {} THEN None ELSE Some(SubSeq(beforePlus, first(dashAt) + 1, Len(beforePlus)))
        nums == Pieces(core, ".", 1, << >>, << >>)
        isNumber(x) == x # << >> /\ \A i \in 1..Len(x) : IsDigit(x[i])
        isIdents(x) ==
            LET ids == Pieces(x, ".", 1, << >>, << >>) IN
            \A n \in 1..Len(ids) :
                ids[n] # << >> /\ \A i \in 1..Len(ids[n]) : IsDigit(ids[n][i]) \/ ids[n][i] \in letters \/ ids[n][i] = "-" IN
    /\ Len(nums) \in {2, 3}
    /\ \A n \in 1..Len(nums) : isNumber(nums[n])
    /\ pre # None => isIdents(pre.val)
    /\ build # None => isIdents(build.val)

\* yaml.Marshal of a map[string]string with the keys "a" and "b": a line
\* "key: value" per key, the keys in order
MarshalMap(m) ==
    LET line(k) == IF k \in DOMAIN m THEN <<k, ":", " ", m[k], "\n">> ELSE << >> IN
    line("a") \o line("b")

\* f.AddKipFile(content, path, permissions)
AddKipFile(f, content, path, permissions) ==
    [f EXCEPT !.kipFiles = MapPut(@, path, [Content |-> content, Path |-> path, Owner |-> "root", RawFilePermissions |-> permissions])]

\* f.ResetInstanceData()
ResetInstanceData(f) == [f EXCEPT !.kipFiles = EmptyMap]

\* f.AddItzoVersion(version)
AddItzoVersion(f, version) ==
    IF version = << >> THEN f
    ELSE IF /\ version # <<"l", "a", "t", "e", "s", "t">>
            /\ version[1] # "v"
            /\ SemverMatch(version)
         THEN AddKipFile(f, <<"v">> \o version, ItzoVersionPath, "0444")
         ELSE AddKipFile(f, version, ItzoVersionPath, "0444")

\* f.AddItzoURL(url)
AddItzoURL(f, url) ==
    IF url = << >> THEN f ELSE AddKipFile(f, url, ItzoURLPath, "0444")

\* f.AddCellConfig(cfg); marshalOk: yaml.Marshal returned no error
AddCellConfig(f, config, marshalOk) ==
    IF Cardinality(DOMAIN config) = 0 THEN f
    ELSE IF ~marshalOk THEN f
    ELSE AddKipFile(f, MarshalMap(config), CellConfigPath, "0444")

\* len(cloudInitContent): the header, then the marshalled configuration
ContentLen(content) == Len(content.head) + content.body.size

\* a plausible slip: content of exactly maxCloudInitSize bytes is refused
ContentsRefusesLimit(f, order, marshal) ==
    LET mergedFiles == f.userData.WriteFiles \o [i \in 1..Len(order) |-> f.kipFiles[order[i]]]
        mergedConfig == [f.userData EXCEPT !.WriteFiles = mergedFiles]
        cloudInitContent == [head |-> cloudInitHeader, body |-> [yaml |-> mergedConfig, size |-> marshal.size]] IN
    IF ~marshal.ok THEN [called |-> TRUE, file |-> f, marshal |-> marshal, err |-> TRUE, content |-> None]
    ELSE IF ContentLen(cloudInitContent) >= maxCloudInitSize
    THEN [called |-> TRUE, file |-> f, marshal |-> marshal, err |-> TRUE, content |-> None]
    ELSE [called |-> TRUE, file |-> f, marshal |-> marshal, err |-> FALSE, content |-> Some(cloudInitContent)]

\* a plausible slip: the kip files are listed before the user's
ContentsKipFirst(f, order, marshal) ==
    LET mergedFiles == [i \in 1..Len(order) |-> f.kipFiles[order[i]]] \o f.userData.WriteFiles
        mergedConfig == [f.userData EXCEPT !.WriteFiles = mergedFiles]
        cloudInitContent == [head |-> cloudInitHeader, body |-> [yaml |-> mergedConfig, size |-> marshal.size]] IN
    IF ~marshal.ok THEN [called |-> TRUE, file |-> f, marshal |-> marshal, err |-> TRUE, content |-> None]
    ELSE IF ContentLen(cloudInitContent) > maxCloudInitSize
    THEN [called |-> TRUE, file |-> f, marshal |-> marshal, err |-> TRUE, content |-> None]
    ELSE [called |-> TRUE, file |-> f, marshal |-> marshal, err |-> FALSE, content |-> Some(cloudInitContent)]

\* f.Contents(): order is the order the range over f.kipFiles takes, marshal
\* what yaml.Marshal(mergedConfig) returned: an error, or bytes of some size
\* that stand for the merged configuration. The content is the header
\* followed by these bytes; file is the File after the call
Contents(f, order, marshal) ==
    LET mergedFiles == f.userData.WriteFiles \o [i \in 1..Len(order) |-> f.kipFiles[order[i]]]
        mergedConfig == [f.userData EXCEPT !.WriteFiles = mergedFiles]
        cloudInitContent == [head |-> cloudInitHeader, body |-> [yaml |-> mergedConfig, size |-> marshal.size]] IN
    IF ~marshal.ok THEN [called |-> TRUE, file |-> f, marshal |-> marshal, err |-> TRUE, content |-> None]
    ELSE IF ContentLen(cloudInitContent) > maxCloudInitSize
    THEN [called |-> TRUE, file |-> f, marshal |-> marshal, err |-> TRUE, content |-> None]
    ELSE [called |-> TRUE, file |-> f, marshal |-> marshal, err |-> FALSE, content |-> Some(cloudInitContent)]

\* the write-files of the user's cloud config: none, one, or two of which
\* the second is at the path of the itzo version
UserWriteFiles ==
    LET u1 == [Content |-> <<"u">>, Path |-> "/etc/u", Owner |-> "root", RawFilePermissions |-> "0644"]
        u2 == [Content |-> <<"w">>, Path |-> ItzoVersionPath, Owner |-> "me", RawFilePermissions |-> "0600"] IN
    {<< >>, <<u1>>, <<u1, u2>>}

\* the versions given to AddItzoVersion: none, latest, semantic versions
\* with and without the "v", with two numbers and a prerelease, and one
\* that is no version
ItzoVersions ==
    {<< >>, <<"l", "a", "t", "e", "s", "t">>, <<"1", ".", "2", ".", "3">>, <<"v", "1", ".", "2", ".", "3">>,
     <<"1", ".", "2", "-", "r", "c", ".", "1">>, <<"1", ".", "x">>}

\* the sizes yaml.Marshal may give: small, and just below, at and just
\* above what the header leaves of maxCloudInitSize
MarshalResults ==
    {[ok |-> FALSE, size |-> 0]}
        \cup [ok : {TRUE}, size : {3, maxCloudInitSize - 15, maxCloudInitSize - 14, maxCloudInitSize - 13}]

\* New(path): the user's cloud config loaded, no kip files
InitCloudInit ==
    /\ cloudFile \in [userData : [WriteFiles : UserWriteFiles], kipFiles : {EmptyMap}]
    /\ lastCall = [op |-> "none"]
    /\ contentsRes = NotCalled
    /\ FilesIdle
    /\ PackageIdle
    /\ DeployIdle
    /\ BindIdle
    /\ ImagesIdle
    /\ TagsIdle
    /\ NetIdle
    /\ MetaIdle

CallAddKipFile ==
    /\ \E content \in {<<"x">>, <<"y">>}, path \in {ItzoURLPath, CellConfigPath} :
           /\ cloudFile' = AddKipFile(cloudFile, content, path, "0600")
           /\ lastCall' = [op |-> "AddKipFile", content |-> content, path |-> path, permissions |-> "0600"]
    /\ contentsRes' = NotCalled
    /\ UNCHANGED <<filesVars, pkgVars, deployVars, bindVars, imageVars, tagVars, netVars, metaVars>>

CallAddItzoVersion ==
    /\ \E version \in ItzoVersions :
           /\ cloudFile' = AddItzoVersion(cloudFile, version)
           /\ lastCall' = [op |-> "AddItzoVersion", version |-> version]
    /\ contentsRes' = NotCalled
    /\ UNCHANGED <<filesVars, pkgVars, deployVars, bindVars, imageVars, tagVars, netVars, metaVars>>

CallAddItzoURL ==
    /\ \E url \in {<< >>, <<"h", ":", "a">>, <<"h", ":", "b">>} :
           /\ cloudFile' = AddItzoURL(cloudFile, url)
           /\ lastCall' = [op |-> "AddItzoURL", url |-> url]
    /\ contentsRes' = NotCalled
    /\ UNCHANGED <<filesVars, pkgVars, deployVars, bindVars, imageVars, tagVars, netVars, metaVars>>

CallAddCellConfig ==
    /\ \E config \in {EmptyMap, [k \in {"a", "b"} |-> "1"]}, marshalOk \in BOOLEAN :
           /\ cloudFile' = AddCellConfig(cloudFile, config, marshalOk)
           /\ lastCall' = [op |-> "AddCellConfig", cfg |-> config, marshalOk |-> marshalOk]
    /\ contentsRes' = NotCalled
    /\ UNCHANGED <<filesVars, pkgVars, deployVars, bindVars, imageVars, tagVars, netVars, metaVars>>

CallResetInstanceData ==
    /\ cloudFile' = ResetInstanceData(cloudFile)
    /\ lastCall' = [op |-> "ResetInstanceData"]
    /\ contentsRes' = NotCalled
    /\ UNCHANGED <<filesVars, pkgVars, deployVars, bindVars, imageVars, tagVars, netVars, metaVars>>

CallContents ==
    /\ \E order \in Orders(DOMAIN cloudFile.kipFiles), marshal \in MarshalResults :
           LET res == Contents(cloudFile, order, marshal) IN
           /\ contentsRes' = res
           /\ cloudFile' = res.file
    /\ lastCall' = [op |-> "Contents"]
    /\ UNCHANGED <<filesVars, pkgVars, deployVars, bindVars, imageVars, tagVars, netVars, metaVars>>

NextCloudInit ==
    \/ CallAddKipFile
    \/ CallAddItzoVersion
    \/ CallAddItzoURL
    \/ CallAddCellConfig
    \/ CallResetInstanceData
    \/ CallContents

SpecCloudInit == InitCloudInit /\ [][NextCloudInit]_vars

----------------------------------------------------------------------------
(* Properties of the cloud-init file *)

\* C24: the content Contents returns begins with "#cloud-config\n" and is
\* at most 16,000 bytes long; when the header and the marshalled
\* configuration make more than 16,000 bytes Contents returns an error and
\* no content, and when they make exactly 16,000 it returns them
C24_ContentsBounded ==
    contentsRes.called =>
        LET total == 14 + contentsRes.marshal.size IN
        /\ contentsRes.err => contentsRes.content = None
        /\ ~contentsRes.err =>
              /\ contentsRes.content # None
              /\ contentsRes.content.val.head = <<"#", "c", "l", "o", "u", "d", "-", "c", "o", "n", "f", "i", "g", "\n">>
              /\ ContentLen(contentsRes.content.val) = total
              /\ total <= 16000
        /\ (contentsRes.marshal.ok /\ total > 16000) => contentsRes.err
        /\ (contentsRes.marshal.ok /\ total = 16000) => ~contentsRes.err

\* content of exactly 16,000 bytes, with kip files in it
C24_Witness ==
    /\ contentsRes.called /\ ~contentsRes.err
    /\ ContentLen(contentsRes.content.val) = 16000
    /\ DOMAIN cloudFile.kipFiles # {}

\* every kip file is held under its own path
KipFilesByPath == \A p \in DOMAIN cloudFile.kipFiles : cloudFile.kipFiles[p].Path = p

\* what a step of the cloud-init file may do, by the call made
CloudInitStep ==
    LET kip == cloudFile.kipFiles
        kipAfter == cloudFile'.kipFiles
        addsNothing == cloudFile' = cloudFile
        addsAt(p) ==
            /\ DOMAIN kipAfter = DOMAIN kip \cup {p}
            /\ \A q \in DOMAIN kip \ {p} : kipAfter[q] = kip[q]
            /\ cloudFile'.userData = cloudFile.userData IN
    /\ lastCall'.op = "AddKipFile" =>
          /\ addsAt(lastCall'.path)
          /\ kipAfter[lastCall'.path].Content = lastCall'.content
    /\ lastCall'.op = "AddItzoVersion" =>
          IF lastCall'.version = << >> THEN addsNothing ELSE addsAt("/tmp/itzo/itzo_version")
    /\ lastCall'.op = "AddItzoURL" =>
          IF lastCall'.url = << >> THEN addsNothing
          ELSE addsAt("/tmp/itzo/itzo_url") /\ kipAfter["/tmp/itzo/itzo_url"].Content = lastCall'.url
    /\ lastCall'.op = "AddCellConfig" =>
          IF lastCall'.cfg = EmptyMap THEN addsNothing
          ELSE addsNothing \/ addsAt("/tmp/itzo/cell_config.yaml")
    /\ lastCall'.op = "ResetInstanceData" =>
          /\ kipAfter = EmptyMap
          /\ cloudFile'.userData = cloudFile.userData
    /\ lastCall'.op = "Contents" =>
          /\ cloudFile' = cloudFile
          /\ ~contentsRes'.err =>
                LET files == contentsRes'.content.val.body.yaml.WriteFiles
                    nu == Len(cloudFile.userData.WriteFiles) IN
                /\ Len(files) = nu + Cardinality(DOMAIN kip)
                /\ SubSeq(files, 1, nu) = cloudFile.userData.WriteFiles
                /\ \A p \in DOMAIN kip : \E i \in (nu + 1)..Len(files) : files[i] = kip[p]

\* C30: there is at most one kip file per path, an add to a path replacing
\* the file at it; an add of an empty version, url or config adds nothing;
\* ResetInstanceData removes every kip file and leaves the user's cloud
\* config as it is; Contents changes neither and lists the user's
\* write-files, then the kip files
C30_CloudInitFile == [](KipFilesByPath) /\ [][CloudInitStep]_vars

\* Contents of a file with two write-files of the user and two kip files,
\* one of them at the path of a user's write-file
C30_Witness ==
    /\ contentsRes.called /\ ~contentsRes.err
    /\ Len(cloudFile.userData.WriteFiles) = 2
    /\ DOMAIN cloudFile.kipFiles = {"/tmp/itzo/itzo_version", "/tmp/itzo/itzo_url"}
    /\ cloudFile.kipFiles["/tmp/itzo/itzo_version"].Content = <<"v", "1", ".", "2", "-", "r", "c", ".", "1">>
    /\ cloudFile.kipFiles["/tmp/itzo/itzo_url"].Content = <<"x">>
    /\ Len(contentsRes.content.val.body.yaml.WriteFiles) = 4

----------------------------------------------------------------------------
(* api.ObjectMeta *)

\* most Create calls on an object
MaxCreates == 3

\* the strings uuid.NewV4().String() may give
UUIDs == {"u1", "u2", "u3"}

\* meta.Create(); now is what Now() gives, nameId and uid the two new UUIDs
Create(m, now, nameId, uid) ==
    [Name |-> IF m.Name = "" THEN nameId ELSE m.Name,
     Labels |-> IF m.Labels = None THEN Some(EmptyMap) ELSE m.Labels,
     CreationTimestamp |-> now,
     UID |-> uid,
     Namespace |-> "default"]

\* an object as a user hands it in: with a name or without, with labels or
\* without, no UID
InitMeta ==
    /\ meta \in [Name : {"", "web"}, Labels : {None, Some([k \in {"a"} |-> "b"])}, CreationTimestamp : {0}, UID : {""}, Namespace : {""}]
    /\ creates = 0
    /\ FilesIdle
    /\ PackageIdle
    /\ DeployIdle
    /\ BindIdle
    /\ ImagesIdle
    /\ TagsIdle
    /\ NetIdle
    /\ CloudInitIdle

CallCreate ==
    /\ creates < MaxCreates
    /\ \E now \in 1..3, nameId \in UUIDs, uid \in UUIDs : meta' = Create(meta, now, nameId, uid)
    /\ creates' = creates + 1
    /\ UNCHANGED <<filesVars, pkgVars, deployVars, bindVars, imageVars, tagVars, netVars, cloudInitVars>>

NextMeta == CallCreate

SpecMeta == InitMeta /\ [][NextMeta]_vars

\* C25, as stated: once an object has a UID no step changes it, a second
\* Create included
C25_AsStated == [][meta.UID # "" => meta'.UID = meta.UID]_vars

----------------------------------------------------------------------------
(* Further properties of the packaging and of the image selection *)

\* C26, as stated: every entry makeDeployPackage writes is named under
\* ROOTFS, whatever the path of the file: ROOTFS is the first component of
\* the name and no component is ".."
C26_AsStated ==
    archive.called =>
        \A i \in 1..Len(archive.entries) :
            LET nm == archive.entries[i].hdr.Name IN
            /\ Len(nm) >= 2
            /\ nm[1] = "ROOTFS"
            /\ \A j \in 1..Len(nm) : nm[j] # ".."

\* what C27 says of one result r for an object with key set ks holding
\* stored(k) under key k
UniquePathRule(r, ks, stored(_)) ==
    (r.called /\ r.ok) =>
        /\ Cardinality(DOMAIN r.files) <= (IF cmVol.Items = << >> THEN Cardinality(ks) ELSE Len(cmVol.Items))
        /\ cmVol.Items # << >> =>
              \A p \in DOMAIN r.files :
                  LET at == {i \in PresentItems(ks) : ClaimedPath(cmVol.Items[i]) = p}
                      last == CHOOSE i \in at : \A j \in at : j <= i IN
                  /\ at # {}
                  /\ r.files[p].data = stored(cmVol.Items[last].Key)
                  /\ r.files[p].mode = ClaimedMode(cmVol.Items[last])

\* C27: the result of getConfigMapFiles and of getSecretFiles holds one file
\* per archive path, with the data and the mode of the last listed item
\* that resolves to the path, and never more files than items
C27_UniquePaths ==
    /\ UniquePathRule(cmRes, CmKeys, CmStored)
    /\ UniquePathRule(secRes, SecKeys, LAMBDA k : sec.Data[k])

\* two listed items of different keys and bytes at one path: one file, with
\* the bytes and the mode of the second
C27_Witness ==
    /\ cmRes.called /\ cmRes.ok /\ secRes.called /\ secRes.ok
    /\ Len(cmVol.Items) = 2
    /\ ClaimedPath(cmVol.Items[1]) = ClaimedPath(cmVol.Items[2])
    /\ cmVol.Items[1].Key \in CmKeys /\ cmVol.Items[2].Key \in CmKeys
    /\ CmStored(cmVol.Items[1].Key) # CmStored(cmVol.Items[2].Key)
    /\ ClaimedMode(cmVol.Items[1]) # ClaimedMode(cmVol.Items[2])
    /\ DOMAIN cmRes.files = {ClaimedPath(cmVol.Items[2])}
    /\ cmRes.files[ClaimedPath(cmVol.Items[2])] = [data |-> CmStored(cmVol.Items[2].Key), mode |-> ClaimedMode(cmVol.Items[2])]
    /\ secRes.files = cmRes.files

\* C28, as stated: GetBestImage returns the same id for every order of the
\* candidates, two matching images that tie on (version, timestamp)
\* included
C28_AsStated ==
    best.called =>
        \A order \in Orders(1..Len(images)) :
            \A r \in GetBestImage([i \in 1..Len(images) |-> images[order[i]]], tags) : r.id = best.id

----------------------------------------------------------------------------
(* SpecFrame: the dispatch of a pod's volumes, or the selection of an      *)
(* image, with what they are given                                          *)

InitFrame == InitDeploy \/ InitImages

NextFrame == NextDeploy \/ CallFilterImages \/ CallGetBestImage

SpecFrame == InitFrame /\ [][NextFrame]_vars

\* C29: no step of deployPodVolumes, with the calls of getConfigMapFiles
\* and getSecretFiles in it, changes the pod, its status (phase, start
\* failures), the pod and node records or the configmaps and secrets held,
\* whether the call goes on, returns nil or returns an error; and no call
\* of FilterImages or GetBestImage changes the candidate list or the
\* request
C29_InputsUnchanged ==
    [][/\ (status = "running" \/ status' = "running") => UNCHANGED <<pod, rm, podStatus, pods, nodes>>
       /\ (best' # best \/ filtered' # filtered) => UNCHANGED <<images, tags>>]_vars

\* GetBestImage has returned the first of two matching candidates of
\* different versions or timestamps: the list it was given is not in the
\* order of the sort
C29_Witness ==
    /\ best.called /\ ~best.err
    /\ Len(images) = 2
    /\ ImageMatches(images[1], tags) /\ ImageMatches(images[2], tags)
    /\ SortKey(images[1]) # SortKey(images[2])
    /\ best.id = images[1].Id

====
